---- MODULE Spec2Model ----
(***************************************************************************)
(* Model of src/app.py (APOC2 garment listing service): the draft state    *)
(* (_sessions, _last_data, _ebay_token, temporary image files), the        *)
(* analyze / remove-bg / sweep handlers, the publish pipeline              *)
(* (_publish_ebay, upload_pic, suggest_category) and build_specifics.      *)
(*                                                                         *)
(* Granularity: the handlers are asyncio coroutines, so everything between *)
(* two awaits is one atomic action.  cleanup_sessions runs in its own      *)
(* thread and is one action taken under _sessions_lock.                    *)
(***************************************************************************)
EXTENDS Integers, Sequences, FiniteSets, TLC

VARIABLES
    sessions,    \* _sessions: sid -> [data, images, ebay_token, last_used]
    last_data,   \* _last_data: the process-wide draft
    ebay_token,  \* _ebay_token: the process-wide token
    files,       \* temporary image files that exist on disk
    now,         \* wall clock, in hours
    nreq,        \* number of requests received so far (serial of the next one)
    call,        \* per caller: the request in progress and its local variables
    rec,         \* build_specifics: the garment record given to it
    specs,       \* build_specifics: the (name, value) pairs it produced
    market,      \* which answers the marketplace may give to a submission
    input,       \* the helper or read-only endpoint called, and its argument
    output,      \* what that call returned
    queue_file,  \* QUEUE_FILE: the stored batch queue, a list of items
    workers,     \* per queue/process request in progress: its local variables
    issued       \* per id queue/add gave out: its submissions, and whether
                 \* queue/remove was called with it

vars ==
    <<sessions, last_data, ebay_token, files, now, nreq, call, rec, specs, market,
      input, output, queue_file, workers, issued>>

-----------------------------------------------------------------------------
(* Bounds of the model *)

MaxBatch == 3       \* images in one request body
MaxDraft == 1       \* images in one analysed or background-removed batch
MaxRequests == 2    \* requests served in one behaviour
MaxTime == 3        \* hours the clock runs

(* Program constants *)

Retries == 3        \* upload_pic(path, token, retries=3)
PhotoLimit == 12    \* paths[:12], pics[:12]
SessionWindow == 2  \* timedelta(hours=2)

Callers == {"A", "B"}

-----------------------------------------------------------------------------
(* Values *)

NoToken == ""
NoSid == 0

\* a temporary file, named by the request that created it (tempfile names
\* are unique); `by` records the caller whose request created it
File(c, r, i) == [by |-> c, req |-> r, idx |-> i]
NoFile == [by |-> "nobody", req |-> 0, idx |-> 0]

\* the garment record; NoData is the empty dict {}
NoData == [by |-> "nobody", title |-> "", cat_id |-> ""]
Titles == {"", "Tee"}
Analysis(c, t) == [by |-> c, title |-> t, cat_id |-> ""]

EmptyDraft == [set |-> FALSE, data |-> NoData, images |-> <<>>]
NoSession == [exists |-> FALSE, data |-> NoData, images |-> <<>>,
              ebay_token |-> NoToken, last_used |-> 0]

Take(s, n) == IF Len(s) <= n THEN s ELSE SubSeq(s, 1, n)

RECURSIVE Keep(_, _)
\* [x for x in s if x in S]
Keep(s, S) ==
    IF s = <<>> THEN <<>>
    ELSE IF Head(s) \in S THEN <<Head(s)>> \o Keep(Tail(s), S)
    ELSE Keep(Tail(s), S)

Range(s) == {s[i] : i \in 1..Len(s)}


-----------------------------------------------------------------------------
(* Texts are sequences of tokens, so that joining and formatting are real   *)
(* operations.  PyNone stands for Python's None where a text may be None.   *)

PyNone == "<None>"
Fmt(v) == IF v = PyNone THEN "None" ELSE v     \* f"{v}"

RECURSIVE JoinNL(_)
\* "\n".join(parts)
JoinNL(parts) ==
    IF parts = <<>> THEN <<>>
    ELSE IF Len(parts) = 1 THEN parts[1]
    ELSE parts[1] \o <<"\n">> \o JoinNL(Tail(parts))

RECURSIVE NonEmpty(_)
\* [e.text for e in parts if e.text]
NonEmpty(parts) ==
    IF parts = <<>> THEN <<>>
    ELSE IF Head(parts) # <<>> THEN <<Head(parts)>> \o NonEmpty(Tail(parts))
    ELSE NonEmpty(Tail(parts))

-----------------------------------------------------------------------------
(* The marketplace's answers *)

\* what one UploadSiteHostedPictures attempt can end in: a FullURL, a parsed
\* response without one, or an exception (timeout, connection, parse error)
UploadOutcomes == {"url", "nourl", "exc"}

\* GetSuggestedCategories: a CategoryID, a parsed response without one, or an
\* exception
SuggestOutcomes ==
    {"suggested", "nosuggestion", "timeout", "connect", "malformed"}
SuggestedCatId == "175"

MsgTexts == {<<>>, <<"a">>, <<"b">>}    \* LongMessage texts; <<>>: no text
MaxErrors == 2
ErrorLists == UNION {[1..n -> MsgTexts] : n \in 0..MaxErrors}

\* the answer to AddItem / AddFixedPriceItem: a transport failure, a body
\* that is no XML, or an XML document with optional Ack, ItemID and Errors
\* (item = PyNone: an ItemID element without text)
NoResp == [kind |-> "none", ack |-> "ABSENT", item |-> "ABSENT", errors |-> <<>>]
Responses ==
    {[kind |-> k, ack |-> "ABSENT", item |-> "ABSENT", errors |-> <<>>] :
        k \in {"timeout", "connect", "malformed"}}
    \cup
    [kind : {"xml"}, ack : {"Success", "Warning", "Failure", "ABSENT"},
     item : {"110", PyNone, "ABSENT"}, errors : ErrorLists]

\* the answers tried where two callers interleave: an acknowledgement, a
\* rejection with one message, a timeout
ServiceResponses ==
    {[kind |-> "xml", ack |-> "Success", item |-> "110", errors |-> <<>>],
     [kind |-> "xml", ack |-> "Failure", item |-> "ABSENT",
      errors |-> <<(<<"a">>)>>],
     [kind |-> "timeout", ack |-> "ABSENT", item |-> "ABSENT", errors |-> <<>>]}

Answers(m) == IF m = "any" THEN Responses ELSE ServiceResponses

-----------------------------------------------------------------------------
(* Results of _publish_ebay: the dict returned, `keys` being its keys *)

NoResult == [keys |-> {}, success |-> FALSE, item_id |-> "", url |-> <<>>,
             error |-> <<>>]

FailureResult(text) ==
    [keys |-> {"success", "error"}, success |-> FALSE, item_id |-> "",
     url |-> <<>>, error |-> text]

ListingUrl(item_id) == <<"https://www.ebay.com/itm/", Fmt(item_id)>>

SuccessResult(item_id) ==
    [keys |-> {"success", "item_id", "url"}, success |-> TRUE,
     item_id |-> item_id, url |-> ListingUrl(item_id), error |-> <<>>]

NotConnected == FailureResult(<<"Not connected to eBay">>)
NoAnalysisData == FailureResult(<<"No analysis data. Run analysis first.">>)
UnknownEbayError == <<"Unknown eBay error">>

\* str(e) of the exception a transport failure or a parse failure raises
StrExc(kind) == <<kind>>

\* mutant: a Warning acknowledgement is taken for a rejection
AckSuccessOnly(resp) == resp.kind = "xml" /\ resp.ack = "Success"

AckOk(resp) == resp.kind = "xml" /\ resp.ack \in {"Success", "Warning"}

\* iid.text if iid is not None else "?"
ItemIdOf(resp) == IF resp.item = "ABSENT" THEN "?" ELSE resp.item

\* mutant: only the first message is reported
FirstErrorOnly(resp) ==
    IF NonEmpty(resp.errors) = <<>> THEN <<>> ELSE NonEmpty(resp.errors)[1]

\* "\n".join(e.text for e in root.findall(".//e:Errors/e:LongMessage") if e.text)
ErrorsOf(resp) == JoinNL(NonEmpty(resp.errors))

\* lines 754-775: the result computed from the answer to the submission
PublishResult(resp) ==
    IF resp.kind # "xml" THEN FailureResult(StrExc(resp.kind))
    ELSE IF AckOk(resp) THEN SuccessResult(ItemIdOf(resp))
    ELSE FailureResult(IF ErrorsOf(resp) # <<>> THEN ErrorsOf(resp)
                       ELSE UnknownEbayError)


-----------------------------------------------------------------------------
(* Request bodies of /publish *)

NumericTexts == {"25.00"}               \* texts float() accepts
PriceTexts == {"", "25.00", "abc"}

NoBody == [session_id |-> NoSid, ebay_token |-> NoToken, images_b64 |-> <<>>,
           analysis_data |-> NoData, title |-> "", cat_id |-> "",
           start_price |-> ""]

\* images_b64 entries: "ok" decodes, "bad" makes base64.b64decode raise
Base64Lists == UNION {[1..n -> {"ok", "bad"}] : n \in 0..MaxBatch}

\* every body caller c may send, knowing the session ids in sids
Bodies(c, sids) ==
    [session_id : {NoSid} \cup sids, ebay_token : {NoToken, "tok"},
     images_b64 : Base64Lists,
     analysis_data : {NoData} \cup {Analysis(c, t) : t \in Titles},
     title : {""}, cat_id : {"", "15687"}, start_price : PriceTexts]

\* the bodies that publish a stored draft: no images, record or overrides
DraftBodies(c, sids) ==
    {b \in Bodies(c, sids) :
        /\ b.images_b64 = <<>> /\ b.analysis_data = NoData
        /\ b.cat_id = "" /\ b.start_price = ""}

-----------------------------------------------------------------------------
(* The locals of a request in progress *)

NoUrl == [hosted |-> NoFile]            \* upload_pic returned None
Hosted(f) == [hosted |-> f]             \* the FullURL eBay gave for file f

NoListing == [by |-> "nobody", title |-> "", cat_id |-> "", pics |-> <<>>]

IdleCall ==
    [pc |-> "idle", req |-> 0, body |-> NoBody,
     sid |-> NoSid,      \* the session id the service last gave this caller
     token |-> NoToken, data |-> NoData,
     bulk |-> <<>>,      \* _bulk_paths
     tmp |-> {},         \* temporary files this call created
     paths |-> <<>>,     \* paths
     up |-> <<>>,        \* one upload_pic task per path of paths[:12]
     uploaded |-> FALSE, \* an upload request was sent
     suggested |-> FALSE,\* a category suggestion request was sent
     advice |-> "none",  \* how that request ended
     cat_id |-> "",
     posts |-> 0,        \* submissions sent
     listing |-> NoListing,
     resp |-> NoResp,
     result |-> NoResult]

NewTask == [attempt |-> 0, st |-> "ready", wait |-> 0, res |-> NoUrl]


-----------------------------------------------------------------------------
(* Sessions *)

\* get_session(sid): the session, or None (NoSession) when sid is empty or
\* unknown
get_session(sid) ==
    IF sid # NoSid /\ sid \in DOMAIN sessions
    THEN [exists |-> TRUE, data |-> sessions[sid].data,
          images |-> sessions[sid].images,
          ebay_token |-> sessions[sid].ebay_token,
          last_used |-> sessions[sid].last_used]
    ELSE NoSession

\* mutant: the publish writes the caller's category id into the session's
\* record
TouchedOverridden(sid) ==
    IF sid # NoSid /\ sid \in DOMAIN sessions
    THEN [sessions EXCEPT
            ![sid].last_used = now,
            ![sid].data.cat_id = IF call["A"].body.cat_id # ""
                                 THEN call["A"].body.cat_id ELSE @]
    ELSE sessions

\* s["last_used"] = datetime.utcnow(), done by get_session on a hit
Touched(sid) ==
    IF sid # NoSid /\ sid \in DOMAIN sessions
    THEN [sessions EXCEPT ![sid].last_used = now]
    ELSE sessions

-----------------------------------------------------------------------------
(* _publish_ebay, first block (lines 630-678): token, temporary files,     *)
(* record, overrides, paths, start of the uploads                          *)

\* body.get("ebay_token") or (sess token) or _ebay_token
TokenOf(body, sess) ==
    IF body.ebay_token # NoToken THEN body.ebay_token
    ELSE IF sess.exists /\ sess.ebay_token # NoToken THEN sess.ebay_token
    ELSE ebay_token

\* index of the first entry base64.b64decode raises on, 0 when there is none
FirstBad(b64s) ==
    IF \E i \in 1..Len(b64s) : b64s[i] = "bad"
    THEN CHOOSE i \in 1..Len(b64s) :
            /\ b64s[i] = "bad"
            /\ \A j \in 1..(i - 1) : b64s[j] # "bad"
    ELSE 0

\* the files the loop of lines 638-641 creates: one per entry, the entry
\* that fails to decode included (its file is created before the decode)
TempCount(b64s) == IF FirstBad(b64s) = 0 THEN Len(b64s) ELSE FirstBad(b64s)
TempPaths(c, r, b64s) == [i \in 1..TempCount(b64s) |-> File(c, r, i)]

\* lines 642-650: which record the listing is built from
HasRecord(body, sess) ==
    \/ body.images_b64 # <<>>
    \/ sess.exists /\ sess.images # <<>>
    \/ last_data.set

RecordOf(body, sess) ==
    IF body.images_b64 # <<>> THEN body.analysis_data
    ELSE IF sess.exists /\ sess.images # <<>> THEN sess.data
    ELSE last_data.data

\* lines 652-670: the overrides of the body, applied to the copy
Override(data, body) ==
    [data EXCEPT !.title = IF body.title # "" THEN body.title ELSE @,
                 !.cat_id = IF body.cat_id # "" THEN body.cat_id ELSE @]

\* lines 672-675
PathsOf(bulk, sess) ==
    IF bulk # <<>> THEN bulk
    ELSE IF sess.exists /\ sess.images # <<>> THEN sess.images
    ELSE last_data.images

PublishStart(c) ==
    /\ call[c].pc = "start"
    /\ LET body == call[c].body
           sess == get_session(body.session_id)
           token == TokenOf(body, sess)
           made == TempPaths(c, call[c].req, body.images_b64)
           paths == PathsOf(made, sess)
       IN  /\ sessions' = Touched(body.session_id)
           /\ IF token = NoToken
              THEN /\ call' = [call EXCEPT ![c].pc = "done",
                                           ![c].result = NotConnected]
                   /\ files' = files
              ELSE IF FirstBad(body.images_b64) # 0
              THEN \* the exception leaves _publish_ebay: nothing is unlinked
                   /\ call' = [call EXCEPT ![c].pc = "raised",
                                           ![c].token = token,
                                           ![c].tmp = Range(made)]
                   /\ files' = files \cup Range(made)
              ELSE IF ~HasRecord(body, sess)
              THEN /\ call' = [call EXCEPT ![c].pc = "done",
                                           ![c].token = token,
                                           ![c].result = NoAnalysisData]
                   /\ files' = files
              ELSE /\ call' = [call EXCEPT
                        ![c].pc = "uploading",
                        ![c].token = token,
                        ![c].bulk = made,
                        ![c].tmp = Range(made),
                        ![c].data = Override(RecordOf(body, sess), body),
                        ![c].paths = paths,
                        ![c].up = [i \in 1..Len(Take(paths, PhotoLimit))
                                     |-> NewTask]]
                   /\ files' = files \cup Range(made)
    /\ UNCHANGED <<last_data, ebay_token, now, nreq, rec, specs, market, queue_file, workers, issued, input, output>>

-----------------------------------------------------------------------------
(* upload_pic (lines 601-626): one task per path, run by asyncio.gather *)

\* upload_pic has returned v: the task holds nothing but its result
Returned(v) == [attempt |-> 0, st |-> "done", wait |-> 0, res |-> v]

\* mutant: a failed attempt is tried again without counting it
RetryForever(u) == [u EXCEPT !.st = "ready", !.wait = 0]

\* mutant: the image is abandoned at its first failed attempt
GiveUpEarly(u) == Returned(NoUrl)

\* the attempt is over without a URL: the loop goes on, or ends with None
NextAttempt(u) ==
    IF u.attempt + 1 < Retries
    THEN [u EXCEPT !.attempt = @ + 1, !.st = "ready", !.wait = 0]
    ELSE Returned(NoUrl)

\* one pass of the loop body; o = "nofile": compress_image raised because
\* the file is gone
AfterAttempt(u, o, path) ==
    IF o = "url" THEN Returned(Hosted(path))
    ELSE IF o = "nourl" THEN NextAttempt(u)
    ELSE IF u.attempt < Retries - 1
         THEN [u EXCEPT !.st = "sleeping", !.wait = 1 * (u.attempt + 1)]
         ELSE NextAttempt(u)

UploadAttempt(c, i) ==
    /\ call[c].pc = "uploading"
    /\ i \in 1..Len(call[c].up)
    /\ call[c].up[i].st = "ready"
    /\ \E o \in (IF call[c].paths[i] \in files THEN UploadOutcomes
                 ELSE {"nofile"}) :
          call' = [call EXCEPT
              ![c].up[i] = AfterAttempt(@, o, call[c].paths[i]),
              ![c].uploaded = @ \/ o # "nofile"]
    /\ UNCHANGED <<sessions, last_data, ebay_token, files, now, nreq, rec, specs, market, queue_file, workers, issued, input, output>>

\* asyncio.sleep is over
UploadWake(c, i) ==
    /\ call[c].pc = "uploading"
    /\ i \in 1..Len(call[c].up)
    /\ call[c].up[i].st = "sleeping"
    /\ call' = [call EXCEPT ![c].up[i] = NextAttempt(@)]
    /\ UNCHANGED <<sessions, last_data, ebay_token, files, now, nreq, rec, specs, market, queue_file, workers, issued, input, output>>


-----------------------------------------------------------------------------
(* _publish_ebay, after the uploads (lines 679-775) *)

\* mutant: the failed uploads are not filtered out
AllResults(up) == [i \in 1..Len(up) |-> up[i].res]

RECURSIVE Successes(_)
\* pics = [u for u in upload_results if u]: gather returns the results in
\* the order of the tasks, whatever the order they finished in
Successes(up) ==
    IF up = <<>> THEN <<>>
    ELSE IF Head(up).res # NoUrl THEN <<Head(up).res>> \o Successes(Tail(up))
    ELSE Successes(Tail(up))

\* the PictureURL elements: pics[:12]
PictureUrls(up) == Take(Successes(up), PhotoLimit)

\* get_cat_id(data.get("category", "")) of a record without category:
\* CATEGORY_MAP["default"]
DefaultCatId == "57990"

\* suggest_category sends a request unless `not title or not token`
NeedsSuggestion(cl) ==
    cl.data.cat_id = "" /\ cl.data.title # "" /\ cl.token # NoToken

\* float(start_price) raises ValueError
PriceRaises(body) ==
    body.start_price # "" /\ body.start_price \notin NumericTexts

\* the three unlink loops over _bulk_paths (lines 760, 766, 771)
Unlinked(cl) == files \ Range(cl.bulk)

\* lines 684-753 with the category id cat: build the request and POST it,
\* or take the except branch when building raises
BuildAndSubmit(cl, cat) ==
    IF PriceRaises(cl.body)
    THEN [cl EXCEPT !.pc = "done", !.cat_id = cat,
                    !.result = FailureResult(StrExc("ValueError"))]
    ELSE [cl EXCEPT !.pc = "posted", !.cat_id = cat,
                    !.posts = @ + 1,
                    !.listing = [by |-> cl.data.by, title |-> cl.data.title,
                                 cat_id |-> cat, pics |-> PictureUrls(cl.up)]]

\* mutant: the call goes on as soon as one upload is over
GatheredEarly(c) ==
    /\ call[c].pc = "uploading"
    /\ \E i \in 1..Len(call[c].up) : call[c].up[i].st = "done"
    /\ IF NeedsSuggestion(call[c])
       THEN /\ call' = [call EXCEPT ![c].pc = "suggesting",
                                    ![c].suggested = TRUE]
            /\ files' = files
       ELSE LET cat == IF call[c].data.cat_id # "" THEN call[c].data.cat_id
                       ELSE DefaultCatId
                nxt == BuildAndSubmit(call[c], cat)
            IN  /\ call' = [call EXCEPT ![c] = nxt]
                /\ files' = IF nxt.pc = "done" THEN Unlinked(call[c]) ELSE files
    /\ UNCHANGED <<sessions, last_data, ebay_token, now, nreq, rec, specs, market, queue_file, workers, issued, input, output>>

\* gather has returned: lines 679-683, and on to the submission when no
\* suggestion request is needed
Gathered(c) ==
    /\ call[c].pc = "uploading"
    /\ \A i \in 1..Len(call[c].up) : call[c].up[i].st = "done"
    /\ IF NeedsSuggestion(call[c])
       THEN /\ call' = [call EXCEPT ![c].pc = "suggesting",
                                    ![c].suggested = TRUE]
            /\ files' = files
       ELSE LET cat == IF call[c].data.cat_id # "" THEN call[c].data.cat_id
                       ELSE DefaultCatId
                nxt == BuildAndSubmit(call[c], cat)
            IN  /\ call' = [call EXCEPT ![c] = nxt]
                /\ files' = IF nxt.pc = "done" THEN Unlinked(call[c]) ELSE files
    /\ UNCHANGED <<sessions, last_data, ebay_token, now, nreq, rec, specs, market, queue_file, workers, issued, input, output>>

\* mutant: a suggestion request that fails ends the publish with the failure
SuggestAborts(c) ==
    /\ call[c].pc = "suggesting"
    /\ \E o \in SuggestOutcomes :
          LET heard == [call[c] EXCEPT !.advice = o]
              nxt == IF o = "suggested" THEN BuildAndSubmit(heard, SuggestedCatId)
                     ELSE [heard EXCEPT !.pc = "done",
                                        !.result = FailureResult(StrExc(o))]
          IN  /\ call' = [call EXCEPT ![c] = nxt]
              /\ files' = IF nxt.pc = "done" THEN Unlinked(call[c]) ELSE files
    /\ UNCHANGED <<sessions, last_data, ebay_token, now, nreq, rec, specs, market, queue_file, workers, issued, input, output>>

\* suggest_category returns (lines 1111-1120), then lines 684-753
SuggestReply(c) ==
    /\ call[c].pc = "suggesting"
    /\ \E o \in SuggestOutcomes :
          LET cat == IF o = "suggested" THEN SuggestedCatId ELSE DefaultCatId
              nxt == BuildAndSubmit([call[c] EXCEPT !.advice = o], cat)
          IN  /\ call' = [call EXCEPT ![c] = nxt]
              /\ files' = IF nxt.pc = "done" THEN Unlinked(call[c]) ELSE files
    /\ UNCHANGED <<sessions, last_data, ebay_token, now, nreq, rec, specs, market, queue_file, workers, issued, input, output>>

\* mutant: a transport failure makes the call send the submission again
AfterReplyResubmit(cl, r) ==
    IF r.kind \in {"timeout", "connect"} /\ cl.posts < 3
    THEN [cl EXCEPT !.posts = @ + 1]
    ELSE [cl EXCEPT !.pc = "done", !.resp = r, !.result = PublishResult(r)]

\* the call after the answer r to its submission: it returns the result;
\* nothing is sent again
AfterReply(cl, r) ==
    [cl EXCEPT !.pc = "done", !.resp = r, !.result = PublishResult(r)]

\* the POST of line 753 returns or raises; lines 754-775
SubmitReply(c) ==
    /\ call[c].pc = "posted"
    /\ \E r \in Answers(market) :
          call' = [call EXCEPT ![c] = AfterReply(call[c], r)]
    /\ files' = Unlinked(call[c])
    /\ UNCHANGED <<sessions, last_data, ebay_token, now, nreq, rec, specs, market, queue_file, workers, issued, input, output>>

PublishStep(c) ==
    \/ PublishStart(c)
    \/ \E i \in 1..Len(call[c].up) : UploadAttempt(c, i) \/ UploadWake(c, i)
    \/ Gathered(c)
    \/ SuggestReply(c)
    \/ SubmitReply(c)


-----------------------------------------------------------------------------
(* The requests of the service *)

\* a request is over: the caller has its answer (a 500 when the handler
\* raised) and keeps the session id it was given
Return(c) ==
    /\ call[c].pc \in {"done", "raised"}
    /\ call' = [call EXCEPT ![c] = [IdleCall EXCEPT !.sid = call[c].sid]]
    /\ UNCHANGED <<sessions, last_data, ebay_token, files, now, nreq, rec, specs, market, queue_file, workers, issued, input, output>>

\* POST /publish arrives
PublishRequest(c) ==
    /\ call[c].pc = "idle"
    /\ nreq < MaxRequests
    /\ nreq' = nreq + 1
    /\ \E b \in DraftBodies(c, {call[c].sid} \ {NoSid}) :
          call' = [call EXCEPT ![c].pc = "start", ![c].req = nreq + 1,
                               ![c].body = b]
    /\ UNCHANGED <<sessions, last_data, ebay_token, files, now, rec, specs, market, queue_file, workers, issued, input, output>>

\* analyze_api, lines 428-429: the global draft is cleared first
AnalyzeStart(c) ==
    /\ call[c].pc = "idle"
    /\ nreq < MaxRequests
    /\ nreq' = nreq + 1
    /\ last_data' = EmptyDraft
    /\ call' = [call EXCEPT ![c].pc = "analyzing", ![c].req = nreq + 1]
    /\ UNCHANGED <<sessions, ebay_token, files, now, rec, specs, market, queue_file, workers, issued, input, output>>

\* analyze_api, lines 432-463: n images are written to temporary files, the
\* vision model answers, a session is created and the global draft is set
AnalyzeFinish(c) ==
    /\ call[c].pc = "analyzing"
    /\ \E n \in 1..MaxDraft, t \in Titles :
          LET paths == [i \in 1..n |-> File(c, call[c].req, i)]
              result == Analysis(c, t)
              sid == call[c].req
          IN  /\ files' = files \cup Range(paths)
              /\ sessions' = sessions @@
                     (sid :> [data |-> result, images |-> paths,
                              ebay_token |-> NoToken, last_used |-> now])
              /\ last_data' = [set |-> TRUE, data |-> result, images |-> paths]
              /\ call' = [call EXCEPT ![c].pc = "done", ![c].sid = sid]
    /\ UNCHANGED <<ebay_token, now, nreq, rec, specs, market, queue_file, workers, issued, input, output>>

\* analyze_api, lines 464-466: the vision model call or the parse of its
\* answer raised; the files written so far stay, no draft is stored
AnalyzeFail(c) ==
    /\ call[c].pc = "analyzing"
    /\ \E n \in 1..MaxDraft :
          files' = files \cup {File(c, call[c].req, i) : i \in 1..n}
    /\ call' = [call EXCEPT ![c].pc = "done"]
    /\ UNCHANGED <<sessions, last_data, ebay_token, now, nreq, rec, specs, market, queue_file, workers, issued, input, output>>

\* remove_bg_api, lines 407-420, for a batch of n images of which those in
\* good were processed: their files replace the images of the global draft
RemoveBg(c) ==
    /\ call[c].pc = "idle"
    /\ nreq < MaxRequests
    /\ nreq' = nreq + 1
    /\ \E n \in 1..MaxDraft : \E good \in SUBSET (1..n) :
          LET made == {File(c, nreq + 1, i) : i \in good}
              new_paths == Keep([i \in 1..n |-> File(c, nreq + 1, i)], made)
          IN  IF good = {}
              THEN UNCHANGED <<files, last_data>>
              ELSE IF last_data.set
              THEN /\ last_data' = [last_data EXCEPT !.images = new_paths]
                   /\ files' = (files \cup made) \ Range(last_data.images)
              ELSE /\ last_data' = [set |-> TRUE, data |-> NoData,
                                    images |-> new_paths]
                   /\ files' = files \cup made
    /\ UNCHANGED <<sessions, ebay_token, now, call, rec, specs, market, queue_file, workers, issued, input, output>>

\* mutant: a session is expired as soon as the window is over
ExpiredAtWindow ==
    {k \in DOMAIN sessions : sessions[k].last_used <= now - SessionWindow}

\* cleanup_sessions (lines 160-168), run by the sweeper thread
Expired == {k \in DOMAIN sessions : sessions[k].last_used < now - SessionWindow}

cleanup_sessions ==
    /\ Expired # {}
    /\ files' = files \ UNION {Range(sessions[k].images) : k \in Expired}
    /\ sessions' = [k \in DOMAIN sessions \ Expired |-> sessions[k]]
    /\ UNCHANGED <<last_data, ebay_token, now, nreq, call, rec, specs, market, queue_file, workers, issued, input, output>>

\* an hour passes
Tick ==
    /\ now < MaxTime
    /\ now' = now + 1
    /\ UNCHANGED <<sessions, last_data, ebay_token, files, nreq, call, rec, specs, market, queue_file, workers, issued, input, output>>

-----------------------------------------------------------------------------
(* build_specifics (lines 1122-1200).  A text is a sequence of one-character *)
(* strings, so that lower(), strip(), split() and `in` are computed.  A     *)
(* Python value is a record: its type, and its text, truth value or items. *)

MaxList == 2        \* items in style_details, accents, features

Absent == [t |-> "absent", s |-> <<>>, b |-> FALSE, l |-> <<>>]
None == [t |-> "none", s |-> <<>>, b |-> FALSE, l |-> <<>>]
Str(s) == [t |-> "str", s |-> s, b |-> FALSE, l |-> <<>>]
Bool(b) == [t |-> "bool", s |-> <<>>, b |-> b, l |-> <<>>]
Num(s) == [t |-> "num", s |-> s, b |-> FALSE, l |-> <<>>]
List(l) == [t |-> "list", s |-> <<>>, b |-> FALSE, l |-> l]

\* bool(v)
Truthy(v) ==
    CASE v.t = "str" -> v.s # <<>>
      [] v.t = "bool" -> v.b
      [] v.t = "num" -> v.s # <<"0">>
      [] v.t = "list" -> v.l # <<>>
      [] OTHER -> FALSE

\* a or b
Or(a, b) == IF Truthy(a) THEN a ELSE b

\* str(v), f"{v}"
Text(v) ==
    CASE v.t = "str" -> v.s
      [] v.t = "num" -> v.s
      [] v.t = "bool" -> IF v.b THEN <<"T", "r", "u", "e">> ELSE <<"F", "a", "l", "s", "e">>
      [] OTHER -> <<"N", "o", "n", "e">>

UpperCase == <<"A", "B", "C", "D", "E", "F", "G", "H", "I", "J", "K", "L", "M",
               "N", "O", "P", "Q", "R", "S", "T", "U", "V", "W", "X", "Y", "Z">>
LowerCase == <<"a", "b", "c", "d", "e", "f", "g", "h", "i", "j", "k", "l", "m",
               "n", "o", "p", "q", "r", "s", "t", "u", "v", "w", "x", "y", "z">>

\* s.lower()
Lower(s) ==
    [i \in 1..Len(s) |->
        IF \E k \in 1..Len(UpperCase) : UpperCase[k] = s[i]
        THEN LowerCase[CHOOSE k \in 1..Len(UpperCase) : UpperCase[k] = s[i]]
        ELSE s[i]]

\* sub in s
Contains(sub, s) ==
    \E i \in 0..(Len(s) - Len(sub)) : SubSeq(s, i + 1, i + Len(sub)) = sub

\* s.strip()
Strip(s) ==
    LET inked == {i \in 1..Len(s) : s[i] # " "}
        lo == CHOOSE i \in inked : \A j \in inked : i <= j
        hi == CHOOSE i \in inked : \A j \in inked : j <= i
    IN  IF inked = {} THEN <<>> ELSE SubSeq(s, lo, hi)

\* s.split(">")[-1]
LastSegment(s) ==
    LET marks == {i \in 1..Len(s) : s[i] = ">"}
        last == CHOOSE i \in marks : \A j \in marks : j <= i
    IN  IF marks = {} THEN s ELSE SubSeq(s, last + 1, Len(s))

RECURSIVE JoinSp(_)
\* " ".join(texts)
JoinSp(texts) ==
    IF texts = <<>> THEN <<>>
    ELSE IF Len(texts) = 1 THEN texts[1]
    ELSE texts[1] \o <<" ">> \o JoinSp(Tail(texts))

\* any(w in text for w in words)
AnyIn(words, text) == \E i \in 1..Len(words) : Contains(words[i], text)

\* next((v for k, v in vocab.items() if k in text), default)
FirstMatch(vocab, text, default) ==
    LET hits == {i \in 1..Len(vocab) : Contains(vocab[i][1], text)}
    IN  IF hits = {} THEN default
        ELSE vocab[CHOOSE i \in hits : \A j \in hits : i <= j][2]

\* v in (None, t1, t2, ...), and with False among them: Python's == makes 0
\* equal to False
InSentinels(v, texts, withFalse) ==
    \/ v.t = "none"
    \/ v.t = "str" /\ v.s \in texts
    \/ withFalse /\ v.t = "bool" /\ ~v.b
    \/ withFalse /\ v.t = "num" /\ v.s = <<"0">>

\* the fields build_specifics reads
TextFields ==
    {"brand", "size", "color", "material", "gender", "sleeve_length",
     "neckline", "pattern", "closure", "fit", "occasion", "season",
     "lining_material", "vintage_era", "origin"}
OptFields ==
    {"fabric_type", "theme", "collar_style", "cuff_style", "sleeve_type",
     "rise", "leg_style", "jacket_length", "dress_length", "character",
     "performance_activity", "insulation_material", "garment_care"}
FlagFields == {"vintage", "graphic_print", "handmade"}
ListFields == {"style_details", "accents", "features"}
MeasureFields == {"m_chest", "m_waist", "m_inseam"}
Fields ==
    TextFields \cup OptFields \cup FlagFields \cup ListFields
    \cup MeasureFields \cup {"category"}

\* data.get(key, default); data.get(key) is Get(data, key, None)
Get(data, key, default) == IF data[key].t = "absent" THEN default ELSE data[key]

mm ==
    <<<<<<"c", "o", "t", "t", "o", "n">>, <<"C", "o", "t", "t", "o", "n">>>>,
      <<<<"d", "e", "n", "i", "m">>, <<"D", "e", "n", "i", "m">>>>,
      <<<<"w", "o", "o", "l">>, <<"W", "o", "o", "l">>>>,
      <<<<"l", "e", "a", "t", "h", "e", "r">>, <<"L", "e", "a", "t", "h", "e", "r">>>>,
      <<<<"p", "o", "l", "y", "e", "s", "t", "e", "r">>, <<"P", "o", "l", "y", "e", "s", "t", "e", "r">>>>,
      <<<<"n", "y", "l", "o", "n">>, <<"N", "y", "l", "o", "n">>>>,
      <<<<"s", "i", "l", "k">>, <<"S", "i", "l", "k">>>>,
      <<<<"l", "i", "n", "e", "n">>, <<"L", "i", "n", "e", "n">>>>,
      <<<<"c", "a", "s", "h", "m", "e", "r", "e">>, <<"C", "a", "s", "h", "m", "e", "r", "e">>>>,
      <<<<"f", "l", "e", "e", "c", "e">>, <<"F", "l", "e", "e", "c", "e">>>>,
      <<<<"v", "e", "l", "v", "e", "t">>, <<"V", "e", "l", "v", "e", "t">>>>,
      <<<<"c", "o", "r", "d", "u", "r", "o", "y">>, <<"C", "o", "r", "d", "u", "r", "o", "y">>>>,
      <<<<"t", "w", "e", "e", "d">>, <<"T", "w", "e", "e", "d">>>>,
      <<<<"f", "l", "a", "n", "n", "e", "l">>, <<"F", "l", "a", "n", "n", "e", "l">>>>,
      <<<<"c", "a", "n", "v", "a", "s">>, <<"C", "a", "n", "v", "a", "s">>>>,
      <<<<"s", "u", "e", "d", "e">>, <<"S", "u", "e", "d", "e">>>>,
      <<<<"r", "a", "y", "o", "n">>, <<"R", "a", "y", "o", "n">>>>,
      <<<<"a", "c", "r", "y", "l", "i", "c">>, <<"A", "c", "r", "y", "l", "i", "c">>>>,
      <<<<"v", "i", "s", "c", "o", "s", "e">>, <<"V", "i", "s", "c", "o", "s", "e">>>>>>
cm ==
    <<<<<<"b", "l", "a", "c", "k">>, <<"B", "l", "a", "c", "k">>>>,
      <<<<"w", "h", "i", "t", "e">>, <<"W", "h", "i", "t", "e">>>>,
      <<<<"g", "r", "a", "y">>, <<"G", "r", "a", "y">>>>,
      <<<<"g", "r", "e", "y">>, <<"G", "r", "a", "y">>>>,
      <<<<"n", "a", "v", "y">>, <<"N", "a", "v", "y">>>>,
      <<<<"b", "l", "u", "e">>, <<"B", "l", "u", "e">>>>,
      <<<<"r", "e", "d">>, <<"R", "e", "d">>>>,
      <<<<"g", "r", "e", "e", "n">>, <<"G", "r", "e", "e", "n">>>>,
      <<<<"b", "r", "o", "w", "n">>, <<"B", "r", "o", "w", "n">>>>,
      <<<<"b", "e", "i", "g", "e">>, <<"B", "e", "i", "g", "e">>>>,
      <<<<"c", "r", "e", "a", "m">>, <<"C", "r", "e", "a", "m">>>>,
      <<<<"p", "i", "n", "k">>, <<"P", "i", "n", "k">>>>,
      <<<<"p", "u", "r", "p", "l", "e">>, <<"P", "u", "r", "p", "l", "e">>>>,
      <<<<"m", "u", "l", "t", "i", "c", "o", "l", "o", "r">>, <<"M", "u", "l", "t", "i", "c", "o", "l", "o", "r">>>>,
      <<<<"m", "u", "l", "t", "i">>, <<"M", "u", "l", "t", "i", "c", "o", "l", "o", "r">>>>>>
\* mutant: only the word "vintage" itself is looked for
VintageWordOnly == <<<<"v", "i", "n", "t", "a", "g", "e">>>>

VintageWords == <<<<"v", "i", "n", "t", "a", "g", "e">>, <<"r", "e", "t", "r", "o">>, <<"7", "0", "s">>, <<"8", "0", "s">>, <<"9", "0", "s">>>>
ActiveWords == <<<<"a", "t", "h", "l", "e", "t", "i", "c">>, <<"s", "p", "o", "r", "t">>, <<"a", "c", "t", "i", "v", "e", "w", "e", "a", "r">>, <<"g", "y", "m">>>>
FormalWords == <<<<"f", "o", "r", "m", "a", "l">>, <<"s", "u", "i", "t">>, <<"b", "l", "a", "z", "e", "r">>>>
PlusMarks == <<<<"x", "x", "l">>, <<"2", "x", "l">>, <<"3", "x", "l">>, <<"4", "x", "l">>, <<"p", "l", "u", "s">>>>
Departments == {<<"M", "e", "n">>, <<"W", "o", "m", "e", "n">>, <<"B", "o", "y", "s">>, <<"G", "i", "r", "l", "s">>}
SleeveLengths ==
    {<<"L", "o", "n", "g", " ", "S", "l", "e", "e", "v", "e">>, <<"S", "h", "o", "r", "t", " ", "S", "l", "e", "e", "v", "e">>, <<"3", "/", "4", " ", "S", "l", "e", "e", "v", "e">>, <<"S", "l", "e", "e", "v", "e", "l", "e", "s", "s">>,
     <<"C", "a", "p", " ", "S", "l", "e", "e", "v", "e">>}
Necklines ==
    {<<"C", "r", "e", "w", " ", "N", "e", "c", "k">>, <<"V", "-", "N", "e", "c", "k">>, <<"R", "o", "u", "n", "d", " ", "N", "e", "c", "k">>, <<"S", "c", "o", "o", "p", " ", "N", "e", "c", "k">>,
     <<"T", "u", "r", "t", "l", "e", "n", "e", "c", "k">>, <<"M", "o", "c", "k", " ", "N", "e", "c", "k">>, <<"C", "o", "l", "l", "a", "r", "e", "d">>, <<"H", "o", "o", "d", "e", "d">>, <<"P", "o", "l", "o">>,
     <<"H", "e", "n", "l", "e", "y">>, <<"B", "o", "a", "t", " ", "N", "e", "c", "k">>, <<"C", "o", "w", "l", " ", "N", "e", "c", "k">>, <<"S", "q", "u", "a", "r", "e", " ", "N", "e", "c", "k">>,
     <<"O", "f", "f", " ", "S", "h", "o", "u", "l", "d", "e", "r">>, <<"S", "t", "r", "a", "p", "l", "e", "s", "s">>}
opt ==
    <<<<"Fabric Type", "fabric_type">>, <<"Theme", "theme">>,
      <<"Collar Style", "collar_style">>, <<"Cuff Style", "cuff_style">>,
      <<"Sleeve Type", "sleeve_type">>, <<"Rise", "rise">>,
      <<"Leg Style", "leg_style">>, <<"Jacket/Coat Length", "jacket_length">>,
      <<"Dress Length", "dress_length">>, <<"Character", "character">>,
      <<"Performance/Activity", "performance_activity">>,
      <<"Insulation Material", "insulation_material">>,
      <<"Garment Care", "garment_care">>>>

\* the sentinel tuples of lines 1165-1199
NullEmpty == {<<"n", "u", "l", "l">>, <<>>}
NullEmptyNone == {<<"n", "u", "l", "l">>, <<>>, <<"N", "o", "n", "e">>}

Pair(n, v) == [name |-> n, value |-> v]

\* specs.append((n, v)) under a condition
When(c, n, v) == IF c THEN <<Pair(n, v)>> ELSE <<>>

RECURSIVE Items(_, _)
\* for a in items: if a and a not in ("null", None, ""): append((n, str(a)))
Items(n, items) ==
    IF items = <<>> THEN <<>>
    ELSE When(Truthy(Head(items)) /\ ~InSentinels(Head(items), NullEmpty, FALSE),
              n, Str(Text(Head(items))))
         \o Items(n, Tail(items))

RECURSIVE Optional(_, _)
\* the loop over _opt (lines 1179-1181)
Optional(data, pairs) ==
    IF pairs = <<>> THEN <<>>
    ELSE LET v == Get(data, Head(pairs)[2], Str(<<>>))
         IN  When(Truthy(v) /\ ~InSentinels(v, NullEmptyNone, TRUE),
                  Head(pairs)[1], Str(Text(v)))
             \o Optional(data, Tail(pairs))

RECURSIVE Emitted(_)
\* ... for n, v in specs if v, each value formatted into the XML
Emitted(pairs) ==
    IF pairs = <<>> THEN <<>>
    ELSE When(Truthy(Head(pairs).value), Head(pairs).name, Text(Head(pairs).value))
         \o Emitted(Tail(pairs))

\* the texts of a list of strings
Texts(l) == [i \in 1..Len(l) |-> l[i].s]

NoSpecs == [st |-> "none", pairs |-> <<>>]
Raised == [st |-> "raised", pairs |-> <<>>]

\* TypeError: " ".join over a list holding None (line 1125), ">" in None
\* (line 1132)
Raises(data) ==
    LET cat == Get(data, "category", Str(<<>>))
        details == Or(Get(data, "style_details", List(<<>>)), List(<<>>)).l
    IN  \/ cat.t = "none"
        \/ \E i \in 1..Len(details) : details[i].t # "str"

build_specifics(data) ==
    LET gender == Get(data, "gender", Str(<<"U", "n", "i", "s", "e", "x">>))
        cat == Get(data, "category", Str(<<>>)).s
        details == Texts(Or(Get(data, "style_details", List(<<>>)), List(<<>>)).l)
        kw == Lower(JoinSp(details \o (IF cat # <<>> THEN <<cat>> ELSE <<>>)))
        vintage == Truthy(Get(data, "vintage", Bool(FALSE)))
        material == Strip(Or(Get(data, "material", None), Str(<<>>)).s)
        color == Strip(Or(Get(data, "color", None), Str(<<>>)).s)
        size == Strip(Or(Get(data, "size", None), Str(<<>>)).s)
        brand == Strip(Or(Get(data, "brand", None), Str(<<"U", "n", "k", "n", "o", "w", "n">>)).s)
        dept == IF gender.t = "str" /\ gender.s \in Departments
                THEN gender.s ELSE <<"U", "n", "i", "s", "e", "x">>
        gtype == IF Contains(<<">">>, cat) THEN Strip(LastSegment(cat))
                 ELSE IF cat # <<>> THEN cat ELSE <<"C", "l", "o", "t", "h", "i", "n", "g">>
        sk == kw \o <<" ">> \o JoinSp(details)
        style == IF vintage \/ AnyIn(VintageWords, sk) THEN <<"V", "i", "n", "t", "a", "g", "e">>
                 ELSE IF AnyIn(ActiveWords, sk) THEN <<"A", "c", "t", "i", "v", "e", "w", "e", "a", "r">>
                 ELSE IF AnyIn(FormalWords, sk) THEN <<"B", "u", "s", "i", "n", "e", "s", "s">>
                 ELSE <<"C", "a", "s", "u", "a", "l">>
        om == FirstMatch(mm, Lower(material),
                         IF material # <<>> THEN material ELSE <<"C", "o", "t", "t", "o", "n">>)
        ec == FirstMatch(cm, Lower(color),
                         IF color # <<>> THEN color ELSE <<"B", "l", "a", "c", "k">>)
        st == IF AnyIn(PlusMarks, Lower(size)) THEN <<"P", "l", "u", "s">> ELSE <<"R", "e", "g", "u", "l", "a", "r">>
        sleeve0 == Get(data, "sleeve_length", Str(<<>>))
        sleeve == IF sleeve0.t = "str" /\ sleeve0.s \in SleeveLengths
                  THEN sleeve0.s ELSE <<"L", "o", "n", "g", " ", "S", "l", "e", "e", "v", "e">>
        neckline0 == Get(data, "neckline", Str(<<>>))
        neckline == IF neckline0.t = "str" /\ neckline0.s \in Necklines
                    THEN neckline0.s ELSE <<>>
        pattern == Get(data, "pattern", Str(<<>>))
        closure == Get(data, "closure", Str(<<>>))
        fit == Get(data, "fit", Str(<<>>))
        occasion == Get(data, "occasion", Str(<<>>))
        season == Get(data, "season", Str(<<>>))
        lining == Get(data, "lining_material", Str(<<>>))
        era == Get(data, "vintage_era", None)
        accents == Get(data, "accents", List(<<>>))
        feats == Get(data, "features", List(<<>>))
        m_chest == Get(data, "m_chest", Str(<<>>))
        m_waist == Get(data, "m_waist", Str(<<>>))
        m_inseam == Get(data, "m_inseam", Str(<<>>))
        origin == Get(data, "origin", Str(<<>>))
        Kept(v) == Truthy(v) /\ ~InSentinels(v, NullEmpty, FALSE)
        all ==
            << Pair("Brand", Str(brand)),
               Pair("Size", Str(IF size # <<>> THEN size ELSE <<"S", "e", "e", " ", "D", "e", "s", "c", "r", "i", "p", "t", "i", "o", "n">>)),
               Pair("Color", Str(ec)),
               Pair("Department", Str(dept)),
               Pair("Type", Str(gtype)),
               Pair("Style", Str(style)),
               Pair("Sleeve Length", Str(sleeve)),
               Pair("Outer Shell Material", Str(om)),
               Pair("Size Type", Str(st)),
               Pair("Vintage", Str(IF vintage THEN <<"Y", "e", "s">> ELSE <<"N", "o">>)) >>
            \o When(neckline # <<>>, "Neckline", Str(neckline))
            \o When(Kept(pattern), "Pattern", pattern)
            \o When(Truthy(closure) /\ ~InSentinels(closure, NullEmptyNone, FALSE),
                    "Closure", closure)
            \o When(Kept(fit), "Fit", fit)
            \o When(Kept(occasion), "Occasion", occasion)
            \o When(Kept(season), "Season", season)
            \o When(Kept(lining), "Lining Material", lining)
            \o When(Kept(era), "Decade", Str(Text(era)))
            \o Optional(data, opt)
            \o (IF Truthy(accents) /\ accents.t = "list"
                THEN Items("Accents", accents.l) ELSE <<>>)
            \o (IF Truthy(feats) /\ feats.t = "list"
                THEN Items("Features", feats.l) ELSE <<>>)
            \o When(Truthy(Get(data, "graphic_print", None)), "Graphic Print", Str(<<"Y", "e", "s">>))
            \o When(Truthy(Get(data, "handmade", None)), "Handmade", Str(<<"Y", "e", "s">>))
            \o When(Truthy(m_chest), "Chest Size", Str(Text(m_chest) \o <<" ", "i", "n">>))
            \o When(Truthy(m_waist), "Waist Size", Str(Text(m_waist) \o <<" ", "i", "n">>))
            \o When(Truthy(m_inseam), "Inseam", Str(Text(m_inseam) \o <<" ", "i", "n">>))
            \o When(Kept(origin), "Country/Region of Manufacture", origin)
    IN  IF Raises(data) THEN Raised
        ELSE [st |-> "returned", pairs |-> Emitted(all)]

\* the action: one call of build_specifics on the record at hand
BuildSpecifics ==
    /\ specs = NoSpecs
    /\ specs' = build_specifics(rec)
    /\ UNCHANGED <<sessions, last_data, ebay_token, files, now, nreq, call, rec, market, queue_file, workers, issued, input, output>>

\* the records tried: what the analysis prompt asks the model for, each
\* field possibly missing, null, or holding a text the model made up
SampleTexts ==
    {<<>>, <<"n", "u", "l", "l">>, <<"N", "o", "n", "e">>, <<" ">>, <<"X", "X", "L">>, <<"W", "o", "o", "l">>, <<"D", "e", "n", "i", "m", " ", "C", "o", "t", "t", "o", "n">>,
     <<"N", "a", "v", "y", " ", "B", "l", "u", "e">>, <<"T", "e", "a", "l">>, <<"M", "e", "n">>, <<"S", "h", "o", "r", "t", " ", "S", "l", "e", "e", "v", "e">>, <<"V", "-", "N", "e", "c", "k">>, <<"1", "9", "9", "0", "s">>}
SampleCategories ==
    {<<>>, <<"n", "u", "l", "l">>, <<"M", "e", "n", " ", ">", " ", "S", "w", "e", "a", "t", "e", "r", "s", " ", ">", " ", "C", "a", "r", "d", "i", "g", "a", "n">>, <<"B", "l", "a", "z", "e", "r">>, <<"M", "e", "n", " ", ">">>,
     <<"R", "e", "t", "r", "o", " ", "G", "y", "m", " ", "S", "u", "i", "t">>}
SampleItems == {Str(<<>>), Str(<<"n", "u", "l", "l">>), Str(<<"N", "o", "n", "e">>), Str(<<"R", "e", "t", "r", "o">>), None}
SampleMeasures == {Str(<<>>), Str(<<"n", "u", "l", "l">>), Str(<<"N", "o", "n", "e">>), Str(<<"2", "2">>), Num(<<"2", "2">>), Num(<<"0">>)}

SampleLists ==
    UNION {[1..n -> SampleItems] : n \in 0..MaxList}

ValuesOf(f) ==
    {Absent, None} \cup
    (CASE f \in TextFields -> {Str(s) : s \in SampleTexts}
       [] f \in OptFields -> {Str(s) : s \in SampleTexts} \cup {Bool(TRUE), Bool(FALSE)}
       [] f \in FlagFields -> {Bool(TRUE), Bool(FALSE)}
       [] f \in ListFields -> {List(l) : l \in SampleLists}
       [] f \in MeasureFields -> SampleMeasures
       [] OTHER -> {Str(s) : s \in SampleCategories})

EmptyRecord == [f \in Fields |-> Absent]
Cardigan ==
    [EmptyRecord EXCEPT !["category"] = Str(<<"M", "e", "n", " ", ">", " ", "S", "w", "e", "a", "t", "e", "r", "s", " ", ">", " ", "C", "a", "r", "d", "i", "g", "a", "n">>),
                        !["size"] = Str(<<"X", "X", "L">>),
                        !["material"] = Str(<<"W", "o", "o", "l">>)]
BaseRecords ==
    {EmptyRecord, Cardigan,
     [EmptyRecord EXCEPT !["category"] = Str(<<"G", "y", "m", " ", "S", "u", "i", "t">>)]}

-----------------------------------------------------------------------------
(* Helpers and read-only endpoints, each called on its own: `input` names   *)
(* the callee and holds its argument, `output` holds what it returned.      *)

NoInput == [fn |-> "none"]
NoOutput == [fn |-> "none"]

MaxSegments == 3    \* segments of a category path

CATEGORY_MAP ==
    <<<<<<"m", "e", "n", " ", ">", " ", "s", "w", "e", "a", "t", "e", "r", "s", " ", ">", " ", "c", "a", "r", "d", "i", "g", "a", "n">>, "11484">>,
      <<<<"m", "e", "n", " ", ">", " ", "s", "w", "e", "a", "t", "e", "r", "s", " ", ">", " ", "p", "u", "l", "l", "o", "v", "e", "r">>, "11484">>,
      <<<<"m", "e", "n", " ", ">", " ", "s", "w", "e", "a", "t", "e", "r", "s">>, "11484">>,
      <<<<"m", "e", "n", " ", ">", " ", "s", "h", "i", "r", "t", "s", " ", ">", " ", "d", "r", "e", "s", "s", " ", "s", "h", "i", "r", "t">>, "57991">>,
      <<<<"m", "e", "n", " ", ">", " ", "s", "h", "i", "r", "t", "s", " ", ">", " ", "t", "-", "s", "h", "i", "r", "t">>, "15687">>,
      <<<<"m", "e", "n", " ", ">", " ", "s", "h", "i", "r", "t", "s", " ", ">", " ", "c", "a", "s", "u", "a", "l">>, "57990">>,
      <<<<"m", "e", "n", " ", ">", " ", "s", "h", "i", "r", "t", "s">>, "57990">>,
      <<<<"m", "e", "n", " ", ">", " ", "j", "a", "c", "k", "e", "t", "s">>, "57988">>,
      <<<<"m", "e", "n", " ", ">", " ", "c", "o", "a", "t", "s">>, "57988">>,
      <<<<"m", "e", "n", " ", ">", " ", "v", "e", "s", "t", "s">>, "15691">>,
      <<<<"m", "e", "n", " ", ">", " ", "p", "a", "n", "t", "s", " ", ">", " ", "j", "e", "a", "n", "s">>, "11483">>,
      <<<<"m", "e", "n", " ", ">", " ", "j", "e", "a", "n", "s">>, "11483">>,
      <<<<"m", "e", "n", " ", ">", " ", "p", "a", "n", "t", "s", " ", ">", " ", "d", "r", "e", "s", "s">>, "57989">>,
      <<<<"m", "e", "n", " ", ">", " ", "p", "a", "n", "t", "s">>, "57989">>,
      <<<<"m", "e", "n", " ", ">", " ", "s", "h", "o", "r", "t", "s">>, "15689">>,
      <<<<"m", "e", "n", " ", ">", " ", "s", "u", "i", "t", "s", " ", ">", " ", "b", "l", "a", "z", "e", "r">>, "3002">>,
      <<<<"m", "e", "n", " ", ">", " ", "s", "u", "i", "t", "s">>, "3002">>,
      <<<<"m", "e", "n", " ", ">", " ", "b", "l", "a", "z", "e", "r">>, "3002">>,
      <<<<"m", "e", "n", " ", ">", " ", "a", "c", "t", "i", "v", "e", "w", "e", "a", "r">>, "185101">>,
      <<<<"m", "e", "n", " ", ">", " ", "s", "w", "i", "m", "w", "e", "a", "r">>, "15690">>,
      <<<<"w", "o", "m", "e", "n", " ", ">", " ", "s", "w", "e", "a", "t", "e", "r", "s">>, "63866">>,
      <<<<"w", "o", "m", "e", "n", " ", ">", " ", "t", "o", "p", "s">>, "53159">>,
      <<<<"w", "o", "m", "e", "n", " ", ">", " ", "b", "l", "o", "u", "s", "e", "s">>, "53159">>,
      <<<<"w", "o", "m", "e", "n", " ", ">", " ", "d", "r", "e", "s", "s", "e", "s">>, "63861">>,
      <<<<"w", "o", "m", "e", "n", " ", ">", " ", "j", "a", "c", "k", "e", "t", "s">>, "63862">>,
      <<<<"w", "o", "m", "e", "n", " ", ">", " ", "c", "o", "a", "t", "s">>, "63862">>,
      <<<<"w", "o", "m", "e", "n", " ", ">", " ", "v", "e", "s", "t", "s">>, "63862">>,
      <<<<"w", "o", "m", "e", "n", " ", ">", " ", "p", "a", "n", "t", "s", " ", ">", " ", "j", "e", "a", "n", "s">>, "11554">>,
      <<<<"w", "o", "m", "e", "n", " ", ">", " ", "j", "e", "a", "n", "s">>, "11554">>,
      <<<<"w", "o", "m", "e", "n", " ", ">", " ", "p", "a", "n", "t", "s">>, "63863">>,
      <<<<"w", "o", "m", "e", "n", " ", ">", " ", "s", "k", "i", "r", "t", "s">>, "63864">>,
      <<<<"w", "o", "m", "e", "n", " ", ">", " ", "s", "h", "o", "r", "t", "s">>, "11555">>,
      <<<<"w", "o", "m", "e", "n", " ", ">", " ", "a", "c", "t", "i", "v", "e", "w", "e", "a", "r">>, "185099">>,
      <<<<"w", "o", "m", "e", "n", " ", ">", " ", "s", "w", "i", "m", "w", "e", "a", "r">>, "63867">>,
      <<<<"d", "e", "f", "a", "u", "l", "t">>, "57990">>>>

RECURSIVE Split(_)
\* s.split(">")
Split(s) ==
    LET marks == {i \in 1..Len(s) : s[i] = ">"}
        first == CHOOSE i \in marks : \A j \in marks : i <= j
    IN  IF marks = {} THEN <<s>>
        ELSE <<SubSeq(s, 1, first - 1)>> \o Split(SubSeq(s, first + 1, Len(s)))

RECURSIVE JoinArrow(_)
\* " > ".join(p.strip() for p in parts)
JoinArrow(parts) ==
    IF parts = <<>> THEN <<>>
    ELSE IF Len(parts) = 1 THEN Strip(parts[1])
    ELSE Strip(parts[1]) \o <<" ", ">", " ">> \o JoinArrow(Tail(parts))

\* mutant: the table is looked up once and a miss gives no id
LookupOnly(s) ==
    LET key == Strip(Lower(Or(s, Str(<<>>)).s))
        hit == {i \in 1..Len(CATEGORY_MAP) : CATEGORY_MAP[i][1] = key}
    IN  IF hit = {} THEN "" ELSE CATEGORY_MAP[CHOOSE i \in hit : TRUE][2]

\* get_cat_id(s), s a text or None (lines 1086-1095)
get_cat_id(s) ==
    LET InTable(k) == \E i \in 1..Len(CATEGORY_MAP) : CATEGORY_MAP[i][1] = k
        TableId(k) ==
            CATEGORY_MAP[CHOOSE i \in 1..Len(CATEGORY_MAP) : CATEGORY_MAP[i][1] = k][2]
        key == Strip(Lower(Or(s, Str(<<>>)).s))
        parts == Split(key)
        Prefix(l) == JoinArrow(SubSeq(parts, 1, l))
        hits == {l \in 1..(Len(parts) - 1) : InTable(Prefix(l))}
    IN  IF InTable(key) THEN TableId(key)
        ELSE IF hits # {}
             THEN TableId(Prefix(CHOOSE l \in hits : \A m \in hits : m <= l))
        ELSE TableId(<<"d", "e", "f", "a", "u", "l", "t">>)

GetCatId ==
    /\ input.fn = "get_cat_id" /\ output = NoOutput
    /\ output' = [fn |-> "get_cat_id", val |-> get_cat_id(input.arg)]
    /\ UNCHANGED <<sessions, last_data, ebay_token, files, now, nreq, call, rec, specs, market, queue_file, workers, issued, input>>

MaxTitle == 120     \* characters of a title

\* the title slice of each platform: lines 682, 810, 829, 844, 861
TitleMax(p) ==
    CASE p = "depop" -> 50
      [] p = "facebook" -> 99
      [] OTHER -> 80

\* mutant: the title is passed on as it is
UncutTitle(p, d) ==
    IF p = "facebook" /\ Truthy(d.brand)
    THEN d.brand.s \o d.style_name.s \o d.size.s
    ELSE d.title.s

\* the title of the listing for platform p, from the texts of the record d:
\* line 682 for eBay, _platform_data and _format_* for the others; the
\* em dash of line 858 is one character
ListingTitle(p, d) ==
    LET style == IF Truthy(d.style_name) THEN <<" ">> \o d.style_name.s ELSE <<>>
        fb_title == IF Truthy(d.brand)
                    THEN d.brand.s \o style \o <<" ", "EM DASH", " ">> \o Text(d.size)
                    ELSE d.title.s
    IN  Take(IF p = "facebook" THEN fb_title ELSE d.title.s, TitleMax(p))

FormatTitle ==
    /\ input.fn = "title" /\ output = NoOutput
       \* None[:80] raises TypeError in the formatters; line 682 reads
       \* (title or "")
    /\ output' = IF /\ input.platform # "ebay"
                    /\ input.arg.title.t = "none"
                    /\ input.platform = "facebook" => ~Truthy(input.arg.brand)
                 THEN [fn |-> "title", st |-> "raised", val |-> <<>>]
                 ELSE [fn |-> "title", st |-> "returned",
                       val |-> ListingTitle(input.platform, input.arg)]
    /\ UNCHANGED <<sessions, last_data, ebay_token, files, now, nreq, call, rec, specs, market, queue_file, workers, issued, input>>

MaxFinds == 4       \* items one search of the comps source returns

\* Amounts are whole cents, rates whole hundredths, days whole tenths.
\* round(a / b, k), in units of 10^-k: to the nearest, a tie to the even
RoundDiv(a, b) ==
    LET q == a \div b
        r == a % b
    IN  IF 2 * r < b THEN q
        ELSE IF 2 * r > b THEN q + 1
        ELSE IF q % 2 = 0 THEN q ELSE q + 1

RECURSIVE Sum(_)
\* sum(xs)
Sum(xs) == IF xs = <<>> THEN 0 ELSE Head(xs) + Sum(Tail(xs))

RECURSIVE Sorted(_)
\* xs.sort(): ascending
Sorted(xs) ==
    IF xs = <<>> THEN <<>>
    ELSE LET least == CHOOSE i \in 1..Len(xs) : \A j \in 1..Len(xs) : xs[i] <= xs[j]
         IN  <<xs[least]>>
             \o Sorted([k \in 1..(Len(xs) - 1) |-> IF k < least THEN xs[k] ELSE xs[k + 1]])

RECURSIVE Values(_, _, _)
\* [item[val] for item in items if item[has]]: the prices of the items that
\* carry a price, the days of those that carry both times
Values(items, has, val) ==
    IF items = <<>> THEN <<>>
    ELSE (IF Head(items)[has] THEN <<Head(items)[val]>> ELSE <<>>)
         \o Values(Tail(items), has, val)

\* mutant: the tiers are the cheapest and the dearest price
EndsOfRange(query, found) ==
    LET prices == Sorted(Values(found.items, "priced", "cents"))
        n == Len(prices)
    IN  IF ~query THEN [fn |-> "price_recommend", st |-> "noquery"]
        ELSE IF found.raised THEN [fn |-> "price_recommend", st |-> "error"]
        ELSE IF n = 0 THEN [fn |-> "price_recommend", st |-> "nodata"]
        ELSE [fn |-> "price_recommend", st |-> "ok",
              quick_sell |-> prices[1], market |-> RoundDiv(Sum(prices), n),
              premium |-> prices[n], sample_size |-> n,
              low |-> prices[1], high |-> prices[n]]

\* price_recommend (lines 571-598); found is what _fetch_finding_api gave:
\* it raised, or the items
price_recommend(query, found) ==
    LET prices == Sorted(Values(found.items, "priced", "cents"))
        n == Len(prices)
        Max(a, b) == IF a >= b THEN a ELSE b
        Min(a, b) == IF a <= b THEN a ELSE b
    IN  IF ~query THEN [fn |-> "price_recommend", st |-> "noquery"]
        ELSE IF found.raised THEN [fn |-> "price_recommend", st |-> "error"]
        ELSE IF n = 0 THEN [fn |-> "price_recommend", st |-> "nodata"]
        ELSE [fn |-> "price_recommend", st |-> "ok",
              \* int(n * 0.25), int(n * 0.85); Python indexes from 0
              quick_sell |-> prices[Max(0, n \div 4) + 1],
              market |-> RoundDiv(Sum(prices), n),
              premium |-> prices[Min(n - 1, (n * 85) \div 100) + 1],
              sample_size |-> n,
              low |-> prices[1], high |-> prices[n]]

PriceRecommend ==
    /\ input.fn = "price_recommend" /\ output = NoOutput
    /\ output' = price_recommend(input.query, input.sold)
    /\ UNCHANGED <<sessions, last_data, ebay_token, files, now, nreq, call, rec, specs, market, queue_file, workers, issued, input>>

\* mutant: the rate is sold over active
sold_to_active(query, sold, active) ==
    LET sold_count == Len(Values(sold.items, "priced", "cents"))
        active_count == Len(active.items)
    IN  IF ~query THEN [fn |-> "sold_history", st |-> "noquery"]
        ELSE IF sold.raised \/ active.raised THEN [fn |-> "sold_history", st |-> "error"]
        ELSE [fn |-> "sold_history", st |-> "ok",
              sold_count |-> sold_count, active_count |-> active_count,
              sell_through_rate |->
                  IF active_count > 0 THEN RoundDiv(100 * sold_count, active_count)
                  ELSE 100 * sold_count,
              avg_sold_price |-> 0, low |-> 0, high |-> 0, avg_days_to_sell |-> 0]

\* sold_history_api (lines 524-568); sold and active are what the two
\* gathered fetches gave
sold_history_api(query, sold, active) ==
    LET sold_prices == Values(sold.items, "priced", "cents")
        days_list == Values(sold.items, "dated", "days")
        sold_count == Len(sold_prices)
        active_count == Len(active.items)
        total == sold_count + active_count
    IN  IF ~query THEN [fn |-> "sold_history", st |-> "noquery"]
        \* gather without return_exceptions: either failure is the call's
        ELSE IF sold.raised \/ active.raised THEN [fn |-> "sold_history", st |-> "error"]
        ELSE [fn |-> "sold_history", st |-> "ok",
              sold_count |-> sold_count,
              active_count |-> active_count,
              sell_through_rate |->
                  IF total > 0 THEN RoundDiv(100 * sold_count, total) ELSE 0,
              avg_sold_price |->
                  IF sold_count > 0 THEN RoundDiv(Sum(sold_prices), sold_count) ELSE 0,
              low |-> IF sold_count > 0 THEN Sorted(sold_prices)[1] ELSE 0,
              high |-> IF sold_count > 0 THEN Sorted(sold_prices)[sold_count] ELSE 0,
              avg_days_to_sell |->
                  IF days_list # <<>> THEN RoundDiv(10 * Sum(days_list), Len(days_list))
                  ELSE 0]

SoldHistory ==
    /\ input.fn = "sold_history" /\ output = NoOutput
    /\ output' = sold_history_api(input.query, input.sold, input.active)
    /\ UNCHANGED <<sessions, last_data, ebay_token, files, now, nreq, call, rec, specs, market, queue_file, workers, issued, input>>

MaxScore == 7       \* the largest condition_score tried

\* mutant: a record without a score is given the best condition
condition_new(score) ==
    IF score.t = "absent" THEN [fn |-> "condition_id", st |-> "returned", cid |-> "1000"]
    ELSE [fn |-> "condition_id", st |-> "returned", cid |-> "3000"]

\* line 680: {1: "1000", ...}.get(int(data.get("condition_score", 4)), "3000")
\* for a score that is missing, null, an integer, a float (held in tenths)
\* or a text
condition_id(score) ==
    LET raises == \/ score.t = "none"                          \* TypeError
                  \/ score.t = "text" /\ score.s \notin {"3", "5"} \* ValueError
        n == CASE score.t = "absent" -> 4
               [] score.t = "int" -> score.n
               [] score.t = "float" ->
                     IF score.n >= 0 THEN score.n \div 10 ELSE -((-score.n) \div 10)
               [] OTHER -> IF score.s = "3" THEN 3 ELSE 5
    IN  IF raises THEN [fn |-> "condition_id", st |-> "raised", cid |-> ""]
        ELSE [fn |-> "condition_id", st |-> "returned",
              cid |-> CASE n = 1 -> "1000"
                        [] n = 2 -> "1500"
                        [] n = 3 -> "2750"
                        [] OTHER -> "3000"]

ConditionId ==
    /\ input.fn = "condition_id" /\ output = NoOutput
    /\ output' = condition_id(input.score)
    /\ UNCHANGED <<sessions, last_data, ebay_token, files, now, nreq, call, rec, specs, market, queue_file, workers, issued, input>>

\* WEIGHT_MAP, in the order of the dictionary: key, (lbs, oz)
WEIGHT_MAP ==
    << <<<<"t", "-", "s", "h", "i", "r", "t">>, <<0, 8>>>>, <<<<"s", "h", "i", "r", "t">>, <<0, 12>>>>, <<<<"d", "r", "e", "s", "s", " ", "s", "h", "i", "r", "t">>, <<0, 14>>>>,
       <<<<"s", "w", "e", "a", "t", "e", "r">>, <<1, 0>>>>, <<<<"c", "a", "r", "d", "i", "g", "a", "n">>, <<1, 0>>>>, <<<<"h", "o", "o", "d", "i", "e">>, <<1, 4>>>>,
       <<<<"j", "a", "c", "k", "e", "t">>, <<1, 8>>>>, <<<<"c", "o", "a", "t">>, <<2, 8>>>>, <<<<"b", "l", "a", "z", "e", "r">>, <<1, 4>>>>,
       <<<<"v", "e", "s", "t">>, <<0, 12>>>>, <<<<"p", "a", "n", "t", "s">>, <<1, 0>>>>, <<<<"j", "e", "a", "n", "s">>, <<1, 8>>>>,
       <<<<"s", "h", "o", "r", "t", "s">>, <<0, 10>>>>, <<<<"d", "r", "e", "s", "s">>, <<0, 14>>>>, <<<<"s", "k", "i", "r", "t">>, <<0, 10>>>>,
       <<<<"a", "c", "t", "i", "v", "e", "w", "e", "a", "r">>, <<0, 10>>>>, <<<<"s", "w", "i", "m", "w", "e", "a", "r">>, <<0, 6>>>> >>

\* the first key of the table, in its order, that occurs in the lowercased
\* category gives the weight; (1, 0) when none occurs
get_shipping_weight(category) ==
    [fn |-> "get_shipping_weight", st |-> "returned",
     weight |-> FirstMatch(WEIGHT_MAP, Lower(Or(category, Str(<<>>)).s), <<1, 0>>)]

GetShippingWeight ==
    /\ input.fn = "get_shipping_weight" /\ output = NoOutput
    /\ output' = get_shipping_weight(input.arg)
    /\ UNCHANGED <<sessions, last_data, ebay_token, files, now, nreq, call, rec, specs, market, queue_file, workers, issued, input>>

\* lines 689-713: the optional price blocks and the call name of the listing
\* request, from the body's listing_format ("absent" when the body has
\* none), buy_now_price, best_offer and min_offer; float() raises on a text
\* that is no number, and the publish then ends in its except branch
PriceBlocks ==
    /\ input.fn = "price_blocks" /\ output = NoOutput
    /\ LET body == input.body
           listing_format == IF body.listing_format = "absent" THEN "FixedPriceItem"
                             ELSE body.listing_format
           raises == \/ listing_format = "Chinese" /\ body.buy_now_price \notin NumericTexts \cup {""}
                     \/ body.best_offer /\ body.min_offer \notin NumericTexts \cup {""}
           bin_xml == IF listing_format = "Chinese" /\ body.buy_now_price # ""
                      THEN <<"BuyItNowPrice", body.buy_now_price>> ELSE <<>>
           bo_xml == IF body.best_offer
                     THEN <<"BestOfferEnabled">> \o
                          (IF body.min_offer # "" THEN <<"MinimumBestOfferPrice", body.min_offer>>
                           ELSE <<>>)
                     ELSE <<>>
       IN  output' =
             IF raises THEN [fn |-> "price_blocks", st |-> "raised"]
             ELSE [fn |-> "price_blocks", st |-> "returned",
                   call_name |-> IF listing_format = "FixedPriceItem"
                                 THEN "AddFixedPriceItem" ELSE "AddItem",
                   ListingType |-> listing_format,
                   bin_xml |-> bin_xml, bo_xml |-> bo_xml]
    /\ UNCHANGED <<sessions, last_data, ebay_token, files, now, nreq, call, rec, specs, market, queue_file, workers, issued, input>>

-----------------------------------------------------------------------------
(* Marketplace tokens: /ebay-complete (lines 248-275) and /delist (lines    *)
(* 891-899)                                                                 *)

\* the access token the marketplace grants to caller c's authorization
access_token(c) == IF c = "A" THEN "granted to A" ELSE "granted to B"

\* ebay_complete_api, lines 270-275, when the exchange yields a token: the
\* process-wide token is set, and the session's token when the body names a
\* session
ebay_complete_api(c) ==
    /\ call[c].pc = "idle"
    /\ \E session_id \in {NoSid, call[c].sid} :
          /\ ebay_token' = access_token(c)
          /\ sessions' = IF session_id # NoSid /\ session_id \in DOMAIN sessions
                         THEN [Touched(session_id) EXCEPT
                                 ![session_id].ebay_token = access_token(c)]
                         ELSE sessions
    /\ UNCHANGED <<last_data, files, now, nreq, call, rec, specs, market, queue_file, workers, issued, input, output>>

\* delist_api, lines 893-913: the token is the body's or the process-wide
\* one; with an item id and a token the EndItem request is sent under it
delist_api(c) ==
    /\ call[c].pc = "idle"
    /\ \E item_id \in {"", "110"}, own \in {NoToken, "tok"} :
          LET token == IF own # NoToken THEN own ELSE ebay_token
          IN  output' = [fn |-> "delist", by |-> c, ebay_token |-> own,
                         st |-> IF item_id = "" THEN "No item_id provided"
                                ELSE IF token = NoToken THEN "Not connected to eBay"
                                ELSE "sent",
                         token |-> IF item_id # "" THEN token ELSE NoToken]
    /\ UNCHANGED <<sessions, last_data, ebay_token, files, now, nreq, call, rec, specs, market, queue_file, workers, issued, input>>

-----------------------------------------------------------------------------
(* The batch queue (lines 929-979).  The queue is a JSON file that every    *)
(* request loads and saves as a whole.  queue/add and queue/remove run      *)
(* without suspending; queue/process suspends inside each _publish_ebay     *)
(* that reaches the network, with its loaded copy of the queue in hand.     *)

MaxQueue == 2       \* items queue/add accepts in one behaviour
MaxSubmits == 2     \* submissions of one item followed

Workers == {"P", "Q"}   \* the queue/process requests that may overlap

IdleWorker == [pc |-> "idle", queue |-> <<>>, i |-> 0]

NoQueue ==
    /\ queue_file = <<>>
    /\ workers = [w \in Workers |-> IdleWorker]
    /\ issued = <<>>

\* lines 943-955: load, append a pending item under a fresh id, save
queue_add ==
    /\ Len(issued) < MaxQueue
    /\ queue_file' = Append(queue_file,
                            [id |-> Len(issued) + 1, status |-> "pending", result |-> "none"])
    /\ issued' = Append(issued, [posts |-> 0, removed |-> FALSE])
    /\ UNCHANGED <<sessions, last_data, ebay_token, files, now, nreq, call, rec, specs, market, workers, input, output>>

\* lines 975-979: load, drop the items of that id, save
queue_remove(item_id) ==
    /\ queue_file' = Keep(queue_file, {x \in Range(queue_file) : x.id # item_id})
    /\ issued' = [issued EXCEPT ![item_id].removed = TRUE]
    /\ UNCHANGED <<sessions, last_data, ebay_token, files, now, nreq, call, rec, specs, market, workers, input, output>>

\* what _publish_ebay does with an item before it first suspends: it goes to
\* the network ("sent"), returns a failure at once, e.g. "Not connected to
\* eBay" ("refused"), or raises on an image that does not decode ("raises")
Fates == {"sent", "refused", "raises"}

RECURSIVE RunLoop(_, _, _)
\* the loop of lines 965-970 over the loaded copy q, from index i, up to the
\* point where the request suspends or ends; fate says what each pending
\* item's publish does
RunLoop(q, i, fate) ==
    IF i > Len(q) THEN [pc |-> "save", queue |-> q, i |-> i]
    ELSE IF q[i].status # "pending" THEN RunLoop(q, i + 1, fate)
    ELSE CASE fate[q[i].id] = "sent" -> [pc |-> "awaiting", queue |-> q, i |-> i]
           [] fate[q[i].id] = "raises" -> [pc |-> "raised", queue |-> q, i |-> i]
           [] OTHER ->
                RunLoop([q EXCEPT ![i].status = "failed", ![i].result = "failure"],
                        i + 1, fate)

\* the request goes on from index i of its copy q until it suspends in a
\* publish, saves its copy at the end of the loop (line 971), or is ended by
\* the exception, which saves nothing
Resume(w, q, i) ==
    \E fate \in [1..Len(issued) -> Fates] :
        LET r == RunLoop(q, i, fate)
        IN  CASE r.pc = "awaiting" ->
                    /\ issued[r.queue[r.i].id].posts < MaxSubmits
                    /\ workers' = [workers EXCEPT ![w] = r]
                    /\ issued' = [issued EXCEPT ![r.queue[r.i].id].posts = @ + 1]
                    /\ queue_file' = queue_file
              [] r.pc = "save" ->
                    /\ workers' = [workers EXCEPT ![w] = IdleWorker]
                    /\ queue_file' = r.queue
                    /\ issued' = issued
              [] OTHER ->
                    /\ workers' = [workers EXCEPT ![w] = IdleWorker]
                    /\ UNCHANGED <<queue_file, issued>>

\* queue/process is received: line 964 loads the queue, the loop starts
queue_process(w) ==
    /\ workers[w].pc = "idle"
    /\ Resume(w, queue_file, 1)
    /\ UNCHANGED <<sessions, last_data, ebay_token, files, now, nreq, call, rec, specs, market, input, output>>

\* the publish the request was suspended in returns its result: lines
\* 968-970 record it in the copy, and the loop goes on
PublishReturns(w) ==
    /\ workers[w].pc = "awaiting"
    /\ \E success \in BOOLEAN :
          LET q == workers[w].queue
              i == workers[w].i
          IN  Resume(w, [q EXCEPT ![i].status = IF success THEN "completed" ELSE "failed",
                                  ![i].result = IF success THEN "success" ELSE "failure"],
                     i + 1)
    /\ UNCHANGED <<sessions, last_data, ebay_token, files, now, nreq, call, rec, specs, market, input, output>>

-----------------------------------------------------------------------------
(* publish_multi (lines 878-888): the eBay pipeline when "ebay" is asked    *)
(* for, then one formatter per peer platform asked for.  `input` holds the  *)
(* platforms and the body, `output` the peers' entries of the answer.       *)

Peers == {"poshmark", "mercari", "depop", "facebook"}

\* PLATFORM_FORMATTERS[p](body): the title and the price (in cents) of the
\* payload, from _platform_data (lines 785-801) and _format_* (803-869)
FormattedData(p, body) ==
    LET picked == IF body.title # "" THEN body.title
                  ELSE body.analysis_data.title
        chars == IF picked = "Tee" THEN <<"T", "e", "e">> ELSE <<>>
        d == [title |-> Str(chars), brand |-> Str(<<>>),
              style_name |-> Str(<<>>), size |-> Str(<<>>)]
        \* float(body.get("start_price") or ... or 0)
        price == IF body.start_price = "25.00" THEN 2500 ELSE 0
    IN  [title |-> ListingTitle(p, d),
         price |-> CASE p = "poshmark" -> RoundDiv(price * 125, 100)
                     [] p = "mercari" -> RoundDiv(price * 112, 100)
                     [] p = "facebook" -> RoundDiv(price * 95, 100)
                     [] OTHER -> price]

\* lines 880-884: "ebay" is among the platforms, _publish_ebay(body) is
\* awaited
PublishMultiStart ==
    /\ input.fn = "publish_multi" /\ output = NoOutput
    /\ "ebay" \in input.platforms
    /\ call["A"].pc = "idle"
    /\ call' = [call EXCEPT !["A"].pc = "start", !["A"].req = nreq,
                            !["A"].body = input.body]
    /\ UNCHANGED <<sessions, last_data, ebay_token, files, now, nreq, rec, specs, market, queue_file, workers, issued, input, output>>

\* lines 885-888, reached when _publish_ebay has returned or was not called;
\* an exception of _publish_ebay or of a formatter (float() of line 796) is
\* the handler's
PublishMultiFinish ==
    /\ input.fn = "publish_multi" /\ output = NoOutput
    /\ "ebay" \in input.platforms => call["A"].pc \in {"done", "raised"}
    /\ LET asked == Peers \cap input.platforms
           raised == \/ "ebay" \in input.platforms /\ call["A"].pc = "raised"
                     \/ asked # {} /\ PriceRaises(input.body)
       IN  output' =
              IF raised
              THEN [fn |-> "publish_multi", st |-> "raised",
                    peers |-> [p \in {} |-> 0]]
              ELSE [fn |-> "publish_multi", st |-> "returned",
                    peers |-> [p \in asked |->
                                 [status |-> "manual",
                                  formatted_data |-> FormattedData(p, input.body)]]]
    /\ UNCHANGED <<sessions, last_data, ebay_token, files, now, nreq, call, rec, specs, market, queue_file, workers, issued, input>>

-----------------------------------------------------------------------------
(* Spec: the service, from start-up, serving two callers within one        *)
(* session window (the clock stands still)                                 *)

NoSessions == [k \in {} |-> NoSession]

Init ==
    /\ sessions = NoSessions
    /\ last_data = EmptyDraft
    /\ ebay_token = NoToken
    /\ NoQueue
    /\ files = {}
    /\ now = 0
    /\ nreq = 0
    /\ call = [c \in Callers |-> IdleCall]
    /\ rec = EmptyRecord
    /\ specs = NoSpecs
    /\ input = NoInput
    /\ output = NoOutput
    /\ market = "few"

Next ==
    \/ \E c \in Callers :
          \/ AnalyzeStart(c) \/ AnalyzeFinish(c) \/ AnalyzeFail(c)
          \/ RemoveBg(c)
          \/ PublishRequest(c)
          \/ PublishStep(c)
          \/ Return(c)

Spec == Init /\ [][Next]_vars

\* SpecSweep: the same, with the clock running and the sweeper thread
NextSweep == Next \/ cleanup_sessions \/ Tick

SpecSweep == Init /\ [][NextSweep]_vars

\* SpecIdle: one caller, the clock and the sweeper thread, which runs
\* cleanup_sessions every 30 minutes for as long as the process lives
NextIdle ==
    \/ AnalyzeStart("A") \/ AnalyzeFinish("A") \/ AnalyzeFail("A")
    \/ PublishRequest("A")
    \/ PublishStep("A")
    \/ Return("A")
    \/ cleanup_sessions
    \/ Tick

SpecIdle ==
    Init /\ [][NextIdle]_vars /\ WF_vars(cleanup_sessions) /\ WF_vars(Tick)

-----------------------------------------------------------------------------
(* SpecPublish: one _publish_ebay call of caller A, for every request body, *)
(* started in a state the service can be in                                 *)

DraftOf(c, r, n, t) ==
    [set |-> TRUE, data |-> Analysis(c, t),
     images |-> [i \in 1..n |-> File(c, r, i)]]

SessionOf(d) ==
    [data |-> d.data, images |-> d.images, ebay_token |-> NoToken,
     last_used |-> 0]

\* the bodies tried: one that brings images brings no session id, one that
\* brings no images brings no record (analysis_data is read only next to
\* images_b64)
PublishBodies ==
    {b \in Bodies("A", {1}) :
        /\ b.images_b64 # <<>> => b.session_id = NoSid
        /\ b.images_b64 = <<>> => b.analysis_data = NoData}

InitPublish ==
    /\ now = 0
    /\ nreq = 3
    /\ rec = EmptyRecord
    /\ specs = NoSpecs
    /\ input = NoInput
    /\ output = NoOutput
    /\ market = "any"
    /\ ebay_token = NoToken
    /\ NoQueue
       \* nothing analysed yet; A analysed; A, then B analysed
    /\ \/ /\ sessions = NoSessions
          /\ last_data = EmptyDraft
          /\ files = {}
       \/ /\ sessions = (1 :> SessionOf(DraftOf("A", 1, MaxDraft, "Tee")))
          /\ last_data = DraftOf("A", 1, MaxDraft, "Tee")
          /\ files = Range(last_data.images)
       \/ /\ sessions = (1 :> SessionOf(DraftOf("A", 1, MaxDraft, "Tee")))
                        @@ (2 :> SessionOf(DraftOf("B", 2, 1, "Tee")))
          /\ last_data = DraftOf("B", 2, 1, "Tee")
          /\ files = Range(sessions[1].images) \cup Range(sessions[2].images)
    /\ \E b \in PublishBodies :
          call = [c \in Callers |->
                    IF c = "A"
                    THEN [IdleCall EXCEPT !.pc = "start", !.req = 3, !.body = b,
                                          !.sid = 1]
                    ELSE IdleCall]

NextPublish == PublishStep("A")

SpecPublish == InitPublish /\ [][NextPublish]_vars

\* SpecPublishLive: the same call on the event loop: every outbound request
\* returns or times out (timeout=30, timeout=15), every sleep ends, and the
\* loop runs a coroutine that can go on.  The marketplace gives one of the
\* three answers of ServiceResponses and the caller names no category id.
InitPublishLive ==
    /\ now = 0
    /\ nreq = 3
    /\ rec = EmptyRecord
    /\ specs = NoSpecs
    /\ input = NoInput
    /\ output = NoOutput
    /\ market = "few"
    /\ ebay_token = NoToken
    /\ NoQueue
    /\ \/ /\ sessions = NoSessions
          /\ last_data = EmptyDraft
          /\ files = {}
       \/ /\ sessions = (1 :> SessionOf(DraftOf("A", 1, MaxDraft, "Tee")))
          /\ last_data = DraftOf("A", 1, MaxDraft, "Tee")
          /\ files = Range(last_data.images)
    /\ \E b \in {x \in PublishBodies : x.cat_id = ""} :
          call = [c \in Callers |->
                    IF c = "A"
                    THEN [IdleCall EXCEPT !.pc = "start", !.req = 3, !.body = b,
                                          !.sid = 1]
                    ELSE IdleCall]

SpecPublishLive == InitPublishLive /\ [][NextPublish]_vars /\ WF_vars(NextPublish)

-----------------------------------------------------------------------------
(* SpecSpecifics: build_specifics applied to a garment record: a base      *)
(* record with one of its fields replaced                                  *)

InitSpecifics ==
    /\ sessions = NoSessions
    /\ last_data = EmptyDraft
    /\ ebay_token = NoToken
    /\ NoQueue
    /\ files = {}
    /\ now = 0
    /\ nreq = 0
    /\ call = [c \in Callers |-> IdleCall]
    /\ market = "few"
    /\ specs = NoSpecs
    /\ input = NoInput
    /\ output = NoOutput
    /\ \E base \in BaseRecords, f \in Fields :
          \E v \in ValuesOf(f) : rec = [base EXCEPT ![f] = v]

NextSpecifics == BuildSpecifics

SpecSpecifics == InitSpecifics /\ [][NextSpecifics]_vars

-----------------------------------------------------------------------------
(* SpecTokens: the service with the authorization and delist endpoints      *)

NextTokens ==
    \E c \in Callers :
        \/ AnalyzeStart(c) \/ AnalyzeFinish(c) \/ AnalyzeFail(c)
        \/ ebay_complete_api(c)
        \/ PublishRequest(c)
        \/ PublishStep(c)
        \/ Return(c)
        \/ delist_api(c)

SpecTokens == Init /\ [][NextTokens]_vars

-----------------------------------------------------------------------------
(* SpecQueue: the batch queue under queue/add, queue/remove and up to two   *)
(* overlapping queue/process requests                                       *)

NextQueue ==
    \/ queue_add
    \/ \E item_id \in 1..Len(issued) : queue_remove(item_id)
    \/ \E w \in Workers : queue_process(w) \/ PublishReturns(w)

SpecQueue == Init /\ [][NextQueue]_vars

-----------------------------------------------------------------------------
(* SpecFunctions: one call of a helper or read-only endpoint, for every    *)
(* argument of a bounded set                                               *)

InitFunctions ==
    LET Segments == {<<"M", "e", "n">>, <<"S", "w", "e", "a", "t", "e", "r", "s">>, <<"S", "h", "i", "r", "t", "s">>, <<"T", "-", "S", "h", "i", "r", "t">>, <<"H", "a", "t", "s">>}
        Seps == {<<" ", ">", " ">>, <<">">>, <<" ", " ", ">">>}
        RECURSIVE Joined(_, _)
        Joined(segs, sep) ==
            IF Len(segs) = 1 THEN segs[1]
            ELSE segs[1] \o sep \o Joined(Tail(segs), sep)
        Paths ==
            {Joined(segs, sep) :
                segs \in UNION {[1..n -> Segments] : n \in 1..MaxSegments},
                sep \in Seps}
        CategoryArgs ==
            {None, Str(<<>>), Str(<<"d", "e", "f", "a", "u", "l", "t">>), Str(<<" ", "M", "E", "N", " ", ">", " ", "S", "W", "E", "A", "T", "E", "R", "S", " ">>),
             Str(<<"M", "e", "n", " ", ">", " ", "S", "w", "e", "a", "t", "e", "r", "s", " ", ">">>)}
            \cup {Str(p) : p \in Paths}
        Fill(n) == Str([i \in 1..n |-> "x"])
        TitleLengths == {0, 1, 49, 50, 51, 79, 80, 81, 98, 99, 100, MaxTitle}
        TitleArgs ==
            [title : {None} \cup {Fill(n) : n \in TitleLengths},
             brand : {Fill(0), Fill(1), Fill(60)},
             style_name : {Fill(0), Fill(30)},
             size : {Fill(0), Fill(3), Fill(40)}]
        Platforms == {"ebay", "poshmark", "mercari", "depop", "facebook"}
        Item(p, c, t, d) == [priced |-> p, cents |-> c, dated |-> t, days |-> d]
        Finds == {Item(TRUE, 100, TRUE, 1), Item(TRUE, 1000, FALSE, 0),
                  Item(TRUE, 10000, TRUE, 4), Item(FALSE, 0, TRUE, 2)}
        Found(items) == [raised |-> FALSE, items |-> items]
        Failed == [raised |-> TRUE, items |-> <<>>]
        Sold == {Failed} \cup
                {Found(s) : s \in UNION {[1..n -> Finds] : n \in 0..MaxFinds}}
        Active == {Failed} \cup
                  {Found([i \in 1..n |-> Item(TRUE, 1000, FALSE, 0)]) : n \in 0..2}
        Week == <<1000, 1200, 1500, 1800, 2000, 2500, 3000>>
        Scenario == Found([i \in 1..Len(Week) |-> Item(TRUE, Week[i], FALSE, 0)])
        Scores ==
            {[t |-> "absent", n |-> 0, s |-> ""], [t |-> "none", n |-> 0, s |-> ""]}
            \cup {[t |-> "int", n |-> k, s |-> ""] : k \in (-1)..MaxScore}
            \cup {[t |-> "float", n |-> k, s |-> ""] : k \in {-15, 9, 19, 37, 45}}
            \cup {[t |-> "text", n |-> 0, s |-> x] : x \in {"3", "5", "", "abc", "3.5"}}
        Garments == {WEIGHT_MAP[i][1] : i \in 1..Len(WEIGHT_MAP)} \cup {<<"D", "r", "e", "s", "s", " ", "S", "h", "i", "r", "t", "s">>, <<"H", "a", "t", "s">>}
        WeightArgs == {Str(g) : g \in Garments} \cup {Str(<<"M", "e", "n", " ", ">", " ">> \o g) : g \in Garments}
        PriceBodies ==
            [listing_format : {"absent", "FixedPriceItem", "Chinese"},
             buy_now_price : PriceTexts, best_offer : BOOLEAN, min_offer : PriceTexts]
    IN  /\ sessions = NoSessions
        /\ last_data = EmptyDraft
        /\ ebay_token = NoToken
        /\ NoQueue
        /\ files = {}
        /\ now = 0
        /\ nreq = 0
        /\ call = [c \in Callers |-> IdleCall]
        /\ market = "few"
        /\ rec = EmptyRecord
        /\ specs = NoSpecs
        /\ output = NoOutput
        /\ \/ \E a \in CategoryArgs : input = [fn |-> "get_cat_id", arg |-> a]
           \/ \E p \in Platforms, a \in TitleArgs :
                 input = [fn |-> "title", platform |-> p, arg |-> a]
           \/ \E q \in BOOLEAN, s \in Sold \cup {Scenario} :
                 input = [fn |-> "price_recommend", query |-> q, sold |-> s]
           \/ \E q \in BOOLEAN, s \in Sold, a \in Active :
                 input = [fn |-> "sold_history", query |-> q, sold |-> s, active |-> a]
           \/ \E x \in Scores : input = [fn |-> "condition_id", score |-> x]
           \/ \E b \in PriceBodies : input = [fn |-> "price_blocks", body |-> b]
           \/ \E a \in CategoryArgs \cup WeightArgs :
                 input = [fn |-> "get_shipping_weight", arg |-> a]

NextFunctions ==
    \/ GetCatId
    \/ FormatTitle
    \/ PriceRecommend
    \/ SoldHistory
    \/ ConditionId
    \/ PriceBlocks
    \/ GetShippingWeight

SpecFunctions == InitFunctions /\ [][NextFunctions]_vars

\* SpecCategory: where a listing's category id comes from: get_cat_id on
\* its own, and the publish pipeline that picks among the caller's id, the
\* suggestion and the table
InitCategory == InitPublish \/ (InitFunctions /\ input.fn = "get_cat_id")

NextCategory == NextPublish \/ GetCatId

SpecCategory == InitCategory /\ [][NextCategory]_vars

-----------------------------------------------------------------------------
(* SpecMulti: one publish_multi request, for every body and for several    *)
(* sets of platforms, in a state the service can be in                     *)

InitMulti ==
    /\ now = 0
    /\ nreq = 3
    /\ rec = EmptyRecord
    /\ specs = NoSpecs
    /\ output = NoOutput
    /\ market = "few"
    /\ ebay_token = NoToken
    /\ NoQueue
    /\ call = [c \in Callers |-> [IdleCall EXCEPT !.sid = IF c = "A" THEN 1 ELSE 0]]
    /\ \/ /\ sessions = NoSessions
          /\ last_data = EmptyDraft
          /\ files = {}
       \/ /\ sessions = (1 :> SessionOf(DraftOf("A", 1, MaxDraft, "Tee")))
          /\ last_data = DraftOf("A", 1, MaxDraft, "Tee")
          /\ files = Range(last_data.images)
    /\ \E b \in PublishBodies :
       \E ps \in {{"ebay"}, {"depop", "facebook"}, {"ebay"} \cup Peers} :
          input = [fn |-> "publish_multi", platforms |-> ps, body |-> b]

NextMulti == PublishMultiStart \/ PublishStep("A") \/ PublishMultiFinish

SpecMulti == InitMulti /\ [][NextMulti]_vars

-----------------------------------------------------------------------------
(* SpecRemoveBg: one remove_bg_api request (lines 394-423), for every batch *)
(* of outcomes of the background removals, on a global draft that is empty  *)
(* or holds an analysed batch.  `input` holds whether FAL_KEY is set and,   *)
(* per image, whether its removal returned ("ok") or raised ("exc").        *)

InitRemoveBg ==
    /\ sessions = NoSessions
    /\ ebay_token = NoToken
    /\ NoQueue
    /\ now = 0
    /\ nreq = 1
    /\ call = [c \in Callers |-> IdleCall]
    /\ market = "few"
    /\ rec = EmptyRecord
    /\ specs = NoSpecs
    /\ output = NoOutput
    /\ \E n \in 0..MaxDraft :
          /\ last_data \in {EmptyDraft, DraftOf("A", 1, n, "Tee")}
          /\ files = Range(last_data.images)
    /\ \E key \in BOOLEAN, results \in UNION {[1..n -> {"ok", "exc"}] : n \in 0..MaxBatch} :
          input = [fn |-> "remove_bg", FAL_KEY |-> key, results |-> results]

remove_bg_api ==
    /\ input.fn = "remove_bg" /\ output = NoOutput
    /\ LET results == Take(input.results, PhotoLimit)
           good == {i \in 1..Len(results) : results[i] = "ok"}
           made == {File("A", nreq + 1, i) : i \in good}
           new_paths == Keep([i \in 1..Len(results) |-> File("A", nreq + 1, i)], made)
           Answer(code, ok, images) ==
               [fn |-> "remove_bg", status_code |-> code, success |-> ok, images |-> images]
       IN  IF input.results = <<>>
           THEN /\ output' = Answer(400, FALSE, <<>>)
                /\ UNCHANGED <<files, last_data>>
           ELSE IF ~input.FAL_KEY
           THEN /\ output' = Answer(503, FALSE, <<>>)
                /\ UNCHANGED <<files, last_data>>
           ELSE IF good = {}
           THEN /\ output' = Answer(500, FALSE, <<>>)
                /\ UNCHANGED <<files, last_data>>
           ELSE /\ IF last_data.set
                   THEN /\ last_data' = [last_data EXCEPT !.images = new_paths]
                        /\ files' = (files \cup made) \ Range(last_data.images)
                   ELSE /\ last_data' = [set |-> TRUE, data |-> NoData,
                                         images |-> new_paths]
                        /\ files' = files \cup made
                \* line 421 reads r["b64"] of every result, failures included:
                \* a TypeError, answered by the except branch
                /\ output' = IF good = 1..Len(results)
                             THEN Answer(200, TRUE, new_paths)
                             ELSE Answer(500, FALSE, <<>>)
    /\ UNCHANGED <<sessions, ebay_token, now, nreq, call, rec, specs, market, queue_file, workers, issued, input>>

SpecRemoveBg == InitRemoveBg /\ [][remove_bg_api]_vars

-----------------------------------------------------------------------------
(* Claims *)

A == call["A"]

Others(c) == Callers \ {c}

\* C1: the record and the photos of a caller's issued listing never come
\* from a draft another caller created or replaced.
C1_ListingFromOwnDraft ==
    \A c \in Callers :
        call[c].posts > 0 =>
            /\ call[c].listing.by \notin Others(c)
            /\ \A i \in 1..Len(call[c].listing.pics) :
                  call[c].listing.pics[i].hosted.by \notin Others(c)

\* C2: when a call that received images_b64 has returned or raised, none of
\* the temporary files it created exists any more.
C2_TempFilesReleased ==
    (A.body.images_b64 # <<>> /\ A.pc \in {"done", "raised"})
        => A.tmp \cap files = {}

\* C3: no pair of the item specifics that build_specifics returns has the
\* value "", "null" or "None" (or no value at all), whatever the record holds.
SentinelTexts == {<<>>, <<"n", "u", "l", "l">>, <<"N", "o", "n", "e">>}

C3_NoSentinelValues ==
    specs.st = "returned" =>
        \A i \in 1..Len(specs.pairs) : specs.pairs[i].value \notin SentinelTexts

\* C4: the picture URLs of the listing are exactly the hosted URLs of the
\* images, among the first 12 inputs, whose upload yielded a URL, in input
\* order.
C4_Inputs == Take(A.paths, PhotoLimit)
C4_Hosted == {i \in 1..Len(C4_Inputs) : A.up[i].res # NoUrl}
C4_SuccessfulUrlsInOrder ==
    A.posts > 0 =>
        /\ Len(A.listing.pics) = Cardinality(C4_Hosted)
        /\ \A k \in 1..Len(A.listing.pics) :
              \E i \in C4_Hosted :
                  /\ Cardinality({j \in C4_Hosted : j < i}) = k - 1
                  /\ A.listing.pics[k] = Hosted(C4_Inputs[i])

\* C4 witness: a batch of three whose third photo failed on all attempts
\* was issued with the first two URLs.
C4_Witness ==
    /\ A.pc = "posted"
    /\ Len(A.paths) = 3
    /\ A.up[1].res # NoUrl /\ A.up[2].res # NoUrl /\ A.up[3].res = NoUrl
    /\ Len(A.listing.pics) = 2

\* C5: a call sends the listing submission at most once.
C5_AtMostOneSubmission == A.posts <= 1

\* C5 witness: a call whose submission timed out has returned, having sent
\* it once.
C5_Witness == A.pc = "done" /\ A.resp.kind = "timeout" /\ A.posts = 1

TransportFailures == {"timeout", "connect", "malformed"}

\* C6: the result of a submission that timed out, could not connect or got
\* an unparsable answer is marked retryable.
C6_TransportFailureRetryable ==
    (A.pc = "done" /\ A.resp.kind \in TransportFailures)
        => (~A.result.success /\ "retryable" \in A.result.keys)

\* C7: success is true exactly when the answer carries the acknowledgement
\* Success or Warning; the result then has the item id and the listing URL
\* made of it.
C7_SuccessIffAcknowledged ==
    A.pc = "done" =>
        /\ A.result.success <=>
              (A.resp.kind = "xml" /\ A.resp.ack \in {"Success", "Warning"})
        /\ A.result.success =>
              /\ {"item_id", "url"} \subseteq A.result.keys
              /\ A.resp.item # "ABSENT" => A.result.item_id = A.resp.item
              /\ A.result.url
                    = <<"https://www.ebay.com/itm/", Fmt(A.result.item_id)>>

\* C7 witness: a Warning acknowledgement with an item id gave success.
C7_Witness ==
    /\ A.pc = "done" /\ A.resp.ack = "Warning" /\ A.resp.item = "110"
    /\ A.result.success /\ A.result.item_id = "110"

Rejected(cl) ==
    /\ cl.pc = "done" /\ cl.resp.kind = "xml"
    /\ cl.resp.ack \notin {"Success", "Warning"}

\* C8 (as stated): a rejected submission gives success = false and the
\* error is the messages of the answer, in order, joined by newlines.
C8_ErrorIsJoinedMessages ==
    Rejected(A) =>
        /\ ~A.result.success
        /\ A.result.error = JoinNL(NonEmpty(A.resp.errors))

\* C8 (amended): a rejected submission gives success = false; the error is
\* the non-empty messages of the answer, in order, joined by newlines, and
\* is "Unknown eBay error" when the answer has no non-empty message.
C8_ErrorIsJoinedMessagesOrUnknown ==
    Rejected(A) =>
        /\ ~A.result.success
        /\ NonEmpty(A.resp.errors) # <<>>
              => A.result.error = JoinNL(NonEmpty(A.resp.errors))
        /\ NonEmpty(A.resp.errors) = <<>>
              => A.result.error = <<"Unknown eBay error">>

\* C8 witness: no acknowledgement and the two messages a, b gave the error
\* "a\nb".
C8_Witness ==
    /\ A.pc = "done" /\ A.resp.kind = "xml" /\ A.resp.ack = "ABSENT"
    /\ A.resp.errors = <<(<<"a">>), (<<"b">>)>>
    /\ ~A.result.success
    /\ A.result.error = <<"a", "\n", "b">>

\* the request of A names no garment record: none in its body, no session
\* draft, no global draft
C9_NoRecord ==
    /\ A.body.analysis_data = NoData
    /\ ~get_session(A.body.session_id).exists
    /\ ~last_data.set

\* the request of A names no image: none in its body, in its session or in
\* the global draft
C9_NoImages ==
    /\ A.body.images_b64 = <<>>
    /\ get_session(A.body.session_id).images = <<>>
    /\ last_data.images = <<>>

\* C9: a publish without a garment record or without images has failed with
\* a structured error as soon as it has started, and created no temporary
\* file, uploaded nothing and sent nothing to the marketplace.
C9_ValidationFailsFirst ==
    (A.pc \notin {"idle", "start"} /\ (C9_NoRecord \/ C9_NoImages)) =>
        /\ A.pc = "done" /\ ~A.result.success
        /\ "error" \in A.result.keys
        /\ A.tmp = {} /\ ~A.uploaded /\ ~A.suggested /\ A.posts = 0

ResultKeys == {"success", "item_id", "url", "error"}

\* C10: when every upload of a publish failed, the listing is issued
\* with no photo and the result carries a warning flag.
C10_ZeroPhotosWarned ==
    (/\ A.pc = "done" /\ A.posts = 1 /\ Len(A.up) > 0
     /\ \A i \in 1..Len(A.up) : A.up[i].res = NoUrl)
        => /\ A.listing.pics = <<>>
           /\ A.result.keys \ ResultKeys # {}

\* C11: whatever the request body, the call ends by returning a result that
\* has a success flag and, when it failed, a message; it never ends in an
\* exception that leaves _publish_ebay.
C11_NoExceptionEscapes ==
    /\ A.pc # "raised"
    /\ A.pc = "done" =>
          /\ "success" \in A.result.keys
          /\ ~A.result.success => "error" \in A.result.keys

\* C12: get_cat_id returns the id of the longest prefix of the path (the
\* whole path included) that is a key of the table, the path lowercased,
\* split on ">" and its segments stripped; the default id only when no
\* prefix is a key.
C12_LongestPrefixId ==
    (output.fn = "get_cat_id") =>
        LET parts == Split(Lower(Or(input.arg, Str(<<>>)).s))
            Key(l) == JoinArrow(SubSeq(parts, 1, l))
            Known(l) == \E i \in 1..Len(CATEGORY_MAP) : CATEGORY_MAP[i][1] = Key(l)
            hits == {l \in 1..Len(parts) : Known(l)}
            best == CHOOSE l \in hits : \A m \in hits : m <= l
        IN  IF hits = {} THEN output.val = "57990"
            ELSE \E i \in 1..Len(CATEGORY_MAP) :
                    CATEGORY_MAP[i][1] = Key(best) /\ CATEGORY_MAP[i][2] = output.val

\* C13: the category id is never empty: get_cat_id returns a non-empty id
\* for every argument, and every issued listing carries a non-empty
\* CategoryID, whether the caller, the suggestion or the table supplied it.
C13_CategoryIdNeverEmpty ==
    /\ output.fn = "get_cat_id" => output.val # ""
    /\ A.posts > 0 => A.listing.cat_id # ""

\* C13 witness: a submission whose id came from the table, after the
\* suggestion request gave nothing
C13_Witness ==
    /\ A.posts > 0 /\ A.suggested /\ A.data.cat_id = ""
    /\ A.listing.cat_id = DefaultCatId

\* C14: the title of a produced listing is never longer than its platform
\* allows (eBay, Poshmark, Mercari 80; Depop 50; Facebook 99), whatever the
\* title, brand, style name and size; cutting it again changes nothing.
C14_TitleWithinLimit ==
    (output.fn = "title" /\ output.st = "returned") =>
        /\ Len(output.val) <= TitleMax(input.platform)
        /\ Take(output.val, TitleMax(input.platform)) = output.val

\* C14 witness: a Depop title cut from 51 characters to 50
C14_Witness ==
    /\ output.fn = "title" /\ output.st = "returned"
    /\ input.platform = "depop"
    /\ Len(input.arg.title.s) = 51 /\ Len(output.val) = 50

\* the sold prices of the argument, in the order the source gave them
SoldPrices == Values(input.sold.items, "priced", "cents")

\* C15: with three or more sold prices, the tiers of price_recommend are
\* ordered: quick_sell <= market <= premium.
C15_TiersOrdered ==
    (output.fn = "price_recommend" /\ output.st = "ok" /\ output.sample_size >= 3) =>
        /\ output.quick_sell <= output.market
        /\ output.market <= output.premium

\* v is the element at index k (from 0) of the ascending sort of xs
AtSortedIndex(xs, k, v) ==
    /\ \E i \in 1..Len(xs) : xs[i] = v
    /\ Cardinality({i \in 1..Len(xs) : xs[i] < v}) <= k
    /\ Cardinality({i \in 1..Len(xs) : xs[i] <= v}) >= k + 1

\* C16: for a non-empty list of sold prices, quick_sell is the element at
\* index floor(n * 0.25) of the ascending sort, premium the element at index
\* floor(n * 0.85), both within 0..n-1, and market is the mean (reported to
\* the cent); 10, 12, 15, 18, 20, 25, 30 give quick_sell 12 and premium 25.
C16_TiersAtQuantiles ==
    (output.fn = "price_recommend" /\ output.st = "ok") =>
        LET n == Len(SoldPrices)
            total == Sum(SoldPrices)
            diff == output.market * n - total
        IN  /\ n > 0 /\ output.sample_size = n
            /\ n \div 4 \in 0..(n - 1) /\ (n * 85) \div 100 \in 0..(n - 1)
            /\ AtSortedIndex(SoldPrices, n \div 4, output.quick_sell)
            /\ AtSortedIndex(SoldPrices, (n * 85) \div 100, output.premium)
            /\ 2 * diff <= n /\ -2 * diff <= n
            /\ SoldPrices = <<1000, 1200, 1500, 1800, 2000, 2500, 3000>> =>
                    output.quick_sell = 1200 /\ output.premium = 2500

\* C16 witness: the seven prices of the scenario, priced
C16_Witness ==
    /\ output.fn = "price_recommend" /\ output.st = "ok"
    /\ SoldPrices = <<1000, 1200, 1500, 1800, 2000, 2500, 3000>>
    /\ output.quick_sell = 1200 /\ output.market = 1857 /\ output.premium = 2500

\* C17: sell_through_rate lies in [0, 1]; it is sold / (sold + active),
\* reported to the hundredth, when that sum is positive, and 0 when both
\* counts are 0.
C17_SellThroughRate ==
    (output.fn = "sold_history" /\ output.st = "ok") =>
        LET sold == output.sold_count
            total == output.sold_count + output.active_count
            diff == output.sell_through_rate * total - 100 * sold
        IN  /\ sold = Len(SoldPrices) /\ output.active_count = Len(input.active.items)
            /\ output.sell_through_rate \in 0..100
            /\ total > 0 => 2 * diff <= total /\ -2 * diff <= total
            /\ total = 0 => output.sell_through_rate = 0

\* C17 witness: one sold and two active give 0.33
C17_Witness ==
    /\ output.fn = "sold_history" /\ output.st = "ok"
    /\ output.sold_count = 1 /\ output.active_count = 2
    /\ output.sell_through_rate = 33

\* C18: when exactly one of the two fetches of sold_history_api fails, the
\* response still reports the metrics of the one that succeeded.
C18_FetchesIndependent ==
    (/\ output.fn = "sold_history" /\ input.query
     /\ input.sold.raised # input.active.raised) =>
        /\ output.st = "ok"
        /\ ~input.sold.raised => output.sold_count = Len(SoldPrices)
        /\ ~input.active.raised => output.active_count = Len(input.active.items)

\* C19: when the source yields no sold price, the answer says that there is
\* no data: no tier, average or range is reported as 0.
C19_NoDataExplicit ==
    (/\ output.fn \in {"price_recommend", "sold_history"} /\ input.query
     /\ output.st # "error" /\ SoldPrices = <<>>) =>
        /\ output.st = "nodata"

\* C20: the condition id comes from condition_score by the map 1 -> "1000",
\* 2 -> "1500", 3 -> "2750", 4 -> "3000", 5 -> "3000"; a missing score counts
\* as 4 and every other integer gives "3000".
C20_ConditionIdMap ==
    (output.fn = "condition_id" /\ input.score.t \in {"absent", "int"}) =>
        LET Table == <<"1000", "1500", "2750", "3000", "3000">>
            score == IF input.score.t = "absent" THEN 4 ELSE input.score.n
        IN  /\ output.st = "returned"
            /\ output.cid = IF score \in 1..5 THEN Table[score] ELSE "3000"

\* C20 witness: score 3 gives "2750"
C20_Witness ==
    /\ output.fn = "condition_id" /\ input.score.t = "int" /\ input.score.n = 3
    /\ output.cid = "2750"

\* the value build_specifics gave under the name n, <<>> when it gave none
SpecificOf(n) ==
    LET hits == {i \in 1..Len(specs.pairs) : specs.pairs[i].name = n}
    IN  IF hits = {} THEN <<>>
        ELSE specs.pairs[CHOOSE i \in hits : \A j \in hits : i <= j].value

\* C21: for the record that holds exactly category "Men > Sweaters >
\* Cardigan", size "XXL" and material "Wool", build_specifics yields
\* Department "Men", Size Type "Plus" and Outer Shell Material "Wool".
C21_CardiganSpecifics ==
    (rec = Cardigan /\ specs # NoSpecs) =>
        /\ specs.st = "returned"
        /\ SpecificOf("Department") = <<"M", "e", "n">>
        /\ SpecificOf("Size Type") = <<"P", "l", "u", "s">>
        /\ SpecificOf("Outer Shell Material") = <<"W", "o", "o", "l">>

\* C22: publish_multi sends marketplace requests only when "ebay" is among
\* the platforms asked for, and its answer gives every peer platform asked
\* for the status "manual" and the formatter's payload, whatever became of
\* the eBay listing.
C22_PeersManualOnly ==
    (input.fn = "publish_multi") =>
        /\ "ebay" \notin input.platforms =>
              ~A.uploaded /\ ~A.suggested /\ A.posts = 0
        /\ output # NoOutput =>
              /\ output.st = "returned"
              /\ DOMAIN output.peers = Peers \cap input.platforms
              /\ \A p \in DOMAIN output.peers :
                    /\ output.peers[p].status = "manual"
                    /\ output.peers[p].formatted_data
                          = FormattedData(p, input.body)

\* C23: whatever the interleaving of analyze, remove-bg, the session sweep
\* and publish, every path of the image list a publish uploads from (the
\* session's images or the global draft's) names a file that exists.
C23_UploadedFilesExist ==
    \A c \in Callers :
        call[c].pc = "uploading" =>
            \A i \in 1..Len(call[c].up) : call[c].paths[i] \in files

\* C24: upload_pic makes at most 3 attempts per image, each attempt index
\* once; the URL it returns is the hosted URL of that image and ends the
\* task; it returns no URL only when the third attempt has failed.
C24_AtMostThreeAttempts ==
    [][\A i \in (1..Len(call["A"].up)) \cap (1..Len(call'["A"].up)) :
          LET u == call["A"].up[i]
              v == call'["A"].up[i]
          IN  /\ u.attempt \in 0..2 /\ v.attempt \in 0..2
              /\ u.st = "done" => v = u
              /\ (u.st = "ready" /\ v # u) =>
                    \/ v.st = "done"
                    \/ v.st = "sleeping" /\ v.attempt = u.attempt
                    \/ v.st = "ready" /\ v.attempt = u.attempt + 1
              /\ (u.st = "sleeping" /\ v # u) =>
                    v.st = "ready" /\ v.attempt = u.attempt + 1
              /\ (v.st = "done" /\ v.res # NoUrl) =>
                    v.res = Hosted(call["A"].paths[i])
              /\ (u.st # "done" /\ v.st = "done" /\ v.res = NoUrl) =>
                    u.attempt = 2
      ]_vars

\* C24 witness: of a batch whose uploads are over, one image was hosted and
\* another abandoned
C24_Witness ==
    /\ A.pc = "posted" /\ A.uploaded
    /\ \E i, j \in 1..Len(A.up) :
          A.up[i].res # NoUrl /\ A.up[j] = Returned(NoUrl)

\* C25: a failed attempt with index k that is followed by another attempt
\* is followed by a wait of k + 1 seconds first; no wait follows the last
\* attempt.
C25_LinearBackoff ==
    [][\A i \in (1..Len(call["A"].up)) \cap (1..Len(call'["A"].up)) :
          LET u == call["A"].up[i]
              v == call'["A"].up[i]
          IN  /\ v.attempt = u.attempt + 1 =>
                    u.st = "sleeping" /\ u.wait = u.attempt + 1
              /\ v.st = "sleeping" => v.attempt < 2
      ]_vars

\* C26: the listing submission is sent only when every upload of the batch
\* is over (hosted or abandoned) and the category id is settled: the
\* caller's, or the suggestion's once that request has ended, or the
\* table's.
C26_SubmitAfterUploadsAndCategory ==
    A.posts > 0 =>
        /\ Len(A.up) = Len(Take(A.paths, 12))
        /\ \A i \in 1..Len(A.up) : A.up[i].st = "done"
        /\ A.listing.pics = PictureUrls(A.up)
        /\ A.listing.cat_id # ""
        /\ A.data.cat_id # "" => A.listing.cat_id = A.data.cat_id
        /\ NeedsSuggestion(A) => A.suggested /\ A.advice # "none"

\* C26 witness: a submission sent after three uploads and a suggestion
\* request that gave nothing
C26_Witness ==
    /\ A.pc = "posted" /\ Len(A.up) = 3 /\ A.advice = "nosuggestion"
    /\ \E i \in 1..3 : A.up[i].res = NoUrl

\* C28: when the caller supplies no category id and the suggestion request
\* returns one, that id is used; when the request fails (time-out, no
\* connection, unparsable answer, no suggestion) the table's id is used, the publish
\* goes on to the submission, and its result is that of the submission (or
\* of the price that could not be read), never that of the suggestion.
C28_SuggestionFailureAbsorbed ==
    /\ A.data.cat_id # "" => ~A.suggested
    /\ A.advice # "none" =>
          /\ A.data.cat_id = "" /\ A.suggested
          /\ A.cat_id = IF A.advice = "suggested" THEN SuggestedCatId
                        ELSE DefaultCatId
          /\ A.posts = 1 \/ PriceRaises(A.body)
          /\ A.posts = 1 => A.listing.cat_id = A.cat_id
          /\ A.pc = "done" =>
                A.result = IF A.posts = 1 THEN PublishResult(A.resp)
                           ELSE FailureResult(StrExc("ValueError"))

\* C28 witness: the suggestion request timed out and the listing was
\* accepted with the table's id
C28_Witness ==
    /\ A.pc = "done" /\ A.advice = "timeout" /\ A.result.success
    /\ A.listing.cat_id = DefaultCatId

\* C27: every publish ends; it ends in an exception only when an image of
\* its body does not decode, and one that has started its uploads finishes
\* every upload of the batch, hosted or abandoned, and returns a result.
C27_PublishTerminates ==
    /\ <>(A.pc = "done" \/ (A.pc = "raised" /\ FirstBad(A.body.images_b64) # 0))
    /\ (A.pc = "uploading") ~>
          (/\ A.pc = "done" /\ "success" \in A.result.keys
           /\ \A i \in 1..Len(A.up) : A.up[i].st = "done")

\* C27 witness: a publish has returned the marketplace's answer although
\* one image of its batch was abandoned after its last attempt
C27_Witness ==
    /\ A.pc = "done" /\ A.posts = 1 /\ A.resp.kind = "xml"
    /\ \E i, j \in 1..Len(A.up) :
          A.up[i] = Returned(NoUrl) /\ A.up[j].res # NoUrl

\* C30: no step of a publish changes the record or the images stored in a
\* session or in the global draft: the overrides of the body go to the
\* call's own copy.
C30_StoredRecordsUntouched ==
    [][/\ last_data' = last_data
       /\ DOMAIN sessions' = DOMAIN sessions
       /\ \A k \in DOMAIN sessions :
             /\ sessions'[k].data = sessions[k].data
             /\ sessions'[k].images = sessions[k].images
      ]_vars

\* C30 witness: a publish of the session's draft with a category id of the
\* caller has returned; its copy holds the id, the session and the global
\* draft do not
C30_Witness ==
    /\ A.pc = "done" /\ A.posts = 1
    /\ A.body.session_id = 1 /\ A.body.images_b64 = <<>>
    /\ A.body.cat_id = "15687" /\ A.data.cat_id = "15687"
    /\ 1 \in DOMAIN sessions
    /\ sessions[1].data = Analysis("A", "Tee")
    /\ last_data.data.cat_id = ""

\* C29: a step that removes sessions removes exactly those not used for
\* more than 2 hours, deletes their image files and leaves the others as
\* they were; a request that looks a session up sets its last-used time to
\* the current time, and nothing else changes it; a session that is not
\* used again is removed once the clock has passed its window.
C29_IdleSessionsSwept ==
    /\ [][LET gone == DOMAIN sessions \ DOMAIN sessions'
          IN  /\ gone # {} =>
                    /\ gone = {k \in DOMAIN sessions :
                                  sessions[k].last_used < now - 2}
                    /\ \A k \in gone : Range(sessions[k].images) \cap files' = {}
              /\ \A k \in DOMAIN sessions \ gone :
                    /\ sessions'[k].data = sessions[k].data
                    /\ sessions'[k].images = sessions[k].images
                    /\ sessions'[k].last_used # sessions[k].last_used =>
                          sessions'[k].last_used = now
              /\ \A c \in Callers :
                    (/\ call[c].pc = "start" /\ call'[c].pc # "start"
                     /\ call[c].body.session_id \in DOMAIN sessions) =>
                        sessions'[call[c].body.session_id].last_used = now
         ]_vars
    /\ \A k \in 1..MaxRequests :
          (k \in DOMAIN sessions /\ sessions[k].last_used + 2 < MaxTime)
              ~> (k \in DOMAIN sessions => sessions[k].last_used + 2 >= MaxTime)

\* C29 witness: the session of the analysed draft was swept and its image
\* file deleted; the global draft still names the file
C29_Witness ==
    /\ sessions = NoSessions /\ now = 3
    /\ last_data.set /\ last_data.images # <<>>
    /\ last_data.images[1] \notin files

\* the values build_specifics gave under the name n
SpecificsOf(n) == {specs.pairs[i].value : i \in {j \in 1..Len(specs.pairs) : specs.pairs[j].name = n}}

FlagName(f) ==
    CASE f = "vintage" -> "Vintage"
      [] f = "graphic_print" -> "Graphic Print"
      [] f = "handmade" -> "Handmade"

\* C31: for each boolean flag of the record (vintage, graphic_print,
\* handmade) the item specifics hold a pair for the flag, of value "Yes",
\* exactly when the flag is true, and hold no pair for the flag otherwise.
C31_FlagsYesOnlyWhenTrue ==
    specs.st = "returned" =>
        \A f \in FlagFields :
            SpecificsOf(FlagName(f)) =
                IF rec[f].t = "bool" /\ rec[f].b THEN {<<"Y", "e", "s">>} ELSE {}

\* the text a field of the record holds, <<>> when it holds none
FieldText(f) == IF rec[f].t = "str" THEN rec[f].s ELSE <<>>

\* C32: Outer Shell Material is the canonical name of the first entry of
\* the material vocabulary, in vocabulary order, that occurs in the
\* lowercased material text, and "Cotton" when none occurs; Color is
\* obtained the same way from the color vocabulary, with "Black" when none
\* occurs.
C32_MaterialAndColorCanonical ==
    specs.st = "returned" =>
        /\ SpecificsOf("Outer Shell Material") =
              {FirstMatch(mm, Lower(FieldText("material")), <<"C", "o", "t", "t", "o", "n">>)}
        /\ SpecificsOf("Color") =
              {FirstMatch(cm, Lower(FieldText("color")), <<"B", "l", "a", "c", "k">>)}

\* a word of the set occurs in the lowercased category or in a lowercased
\* style detail of the record
KeywordHit(words) ==
    LET details == IF rec["style_details"].t = "list" THEN rec["style_details"].l ELSE <<>>
        texts == {FieldText("category")} \cup {details[i].s : i \in 1..Len(details)}
    IN  \E t \in texts, w \in words : Contains(w, Lower(t))

VintageHit == rec["vintage"] = Bool(TRUE) \/ KeywordHit({<<"v", "i", "n", "t", "a", "g", "e">>, <<"r", "e", "t", "r", "o">>, <<"7", "0", "s">>, <<"8", "0", "s">>, <<"9", "0", "s">>})
AthleticHit == KeywordHit({<<"a", "t", "h", "l", "e", "t", "i", "c">>, <<"s", "p", "o", "r", "t">>, <<"a", "c", "t", "i", "v", "e", "w", "e", "a", "r">>, <<"g", "y", "m">>})
FormalHit == KeywordHit({<<"f", "o", "r", "m", "a", "l">>, <<"s", "u", "i", "t">>, <<"b", "l", "a", "z", "e", "r">>})

\* C33: the Style pair follows the first matching rule in priority order:
\* a vintage keyword or the vintage flag gives "Vintage", otherwise an
\* athletic keyword gives "Activewear", otherwise a formal keyword gives
\* "Business", otherwise "Casual"; a record matching several rules gets the
\* label of the highest one.
C33_StyleByPriority ==
    specs.st = "returned" =>
        SpecificsOf("Style") =
            {IF VintageHit THEN <<"V", "i", "n", "t", "a", "g", "e">>
             ELSE IF AthleticHit THEN <<"A", "c", "t", "i", "v", "e", "w", "e", "a", "r">>
             ELSE IF FormalHit THEN <<"B", "u", "s", "i", "n", "e", "s", "s">>
             ELSE <<"C", "a", "s", "u", "a", "l">>}

\* a record that matches all three rules was labelled
C33_Witness ==
    /\ specs.st = "returned"
    /\ KeywordHit({<<"r", "e", "t", "r", "o">>}) /\ AthleticHit /\ FormalHit
    /\ SpecificsOf("Style") = {<<"V", "i", "n", "t", "a", "g", "e">>}

\* C34: the optional price blocks of the listing request depend on the
\* listing format: the buy-it-now block appears only in an auction request
\* that gives a buy-now price, never in a fixed-price request, and the
\* best-offer block appears only in a format that allows it (fixed price),
\* not on the best_offer flag alone.
C34_PriceBlocksGatedByFormat ==
    (output.fn = "price_blocks" /\ output.st = "returned") =>
        /\ output.bin_xml # <<>> =>
              /\ input.body.listing_format = "Chinese"
              /\ input.body.buy_now_price # ""
        /\ output.ListingType = "FixedPriceItem" => output.bin_xml = <<>>
        /\ output.bo_xml # <<>> =>
              /\ input.body.best_offer
              /\ output.ListingType = "FixedPriceItem"

\* the keys of the weight table that occur in the lowercased category asked
\* about
KeysContained ==
    {i \in 1..Len(WEIGHT_MAP) :
        Contains(WEIGHT_MAP[i][1], Lower(IF input.arg.t = "str" THEN input.arg.s ELSE <<>>))}

\* C35: get_shipping_weight returns the weight of the longest key of the
\* weight table that occurs in the lowercased category (a category holding
\* "dress shirt" gets the dress-shirt weight, one ending in "jeans" the
\* jeans weight), and (1 lb, 0 oz) when no key occurs.
C35_WeightOfLongestKey ==
    output.fn = "get_shipping_weight" =>
        IF KeysContained = {} THEN output.weight = <<1, 0>>
        ELSE \E i \in KeysContained :
                /\ \A j \in KeysContained : Len(WEIGHT_MAP[j][1]) <= Len(WEIGHT_MAP[i][1])
                /\ output.weight = WEIGHT_MAP[i][2]

\* the stored items of that id
Stored(id) == {k \in 1..Len(queue_file) : queue_file[k].id = id}

\* C36: under any interleaving of queue/add, queue/process and queue/remove
\* requests, two overlapping queue/process requests included, each queued
\* item is submitted at most once and only while its stored status is
\* "pending", and its status afterwards is "completed" exactly when that
\* submission succeeded and "failed" otherwise.
C36_SubmittedOnceWhilePending ==
    /\ [](\A id \in 1..Len(issued) :
            /\ issued[id].posts <= 1
            /\ \A k \in Stored(id) :
                  /\ queue_file[k].status = "completed" <=> queue_file[k].result = "success"
                  /\ queue_file[k].status = "failed" <=> queue_file[k].result = "failure")
    /\ [][\A id \in 1..Len(issued) :
            issued'[id].posts > issued[id].posts =>
                \E k \in Stored(id) : queue_file[k].status = "pending"]_vars

\* C37: an item accepted by queue/add stays in the stored queue until
\* queue/remove is called with its id, and an item removed by queue/remove
\* never reappears, whatever queue/process request is in progress.
C37_StoredUntilRemoved ==
    \A id \in 1..Len(issued) : (Stored(id) # {}) <=> ~issued[id].removed

\* the tokens granted to the authorizations of callers other than c
Foreign(c) == {access_token(d) : d \in Others(c)}

\* C38: a publish or delist request acts only with a marketplace token
\* given in its own body or stored in its own session, never with a token
\* another caller's authorization obtained, and a request with neither is
\* answered "Not connected to eBay".
C38_OwnTokenOnly ==
    /\ \A c \in Callers :
          /\ call[c].posts > 0 => call[c].token \notin Foreign(c)
          /\ (/\ call[c].pc = "done" /\ call[c].result # NoResult
              /\ call[c].body.ebay_token = NoToken
              /\ get_session(call[c].body.session_id).ebay_token = NoToken)
                => call[c].result = NotConnected
    /\ output.fn = "delist" =>
          /\ output.token \notin Foreign(output.by)
          /\ (output.ebay_token = NoToken /\ output.st # "No item_id provided")
                => output.st = "Not connected to eBay"

\* C39: every publish result with success = true carries the item
\* identifier contained in the marketplace's answer, never a placeholder,
\* so that the listing URL it returns points at an item the answer named.
C39_ItemIdFromResponse ==
    (A.pc = "done" /\ A.result.success) =>
        /\ A.resp.item \notin {"ABSENT", PyNone}
        /\ A.result.item_id = A.resp.item
        /\ A.result.url = <<"https://www.ebay.com/itm/", A.resp.item>>

\* C40: remove_bg_api tolerates partial failure: when some but not all
\* removals of a batch fail, it answers success with the successful images;
\* and whenever it answers an error, the draft's image list and the image
\* files are what they were before the call.
C40_PartialFailureTolerated ==
    [][(input.fn = "remove_bg" /\ output = NoOutput /\ output' # NoOutput) =>
          /\ ("ok" \in Range(input.results) /\ "exc" \in Range(input.results)
              /\ input.FAL_KEY)
                => /\ output'.success
                   /\ Len(output'.images)
                        = Cardinality({i \in 1..Len(input.results) : input.results[i] = "ok"})
          /\ ~output'.success =>
                /\ last_data'.images = last_data.images
                /\ files' = files]_vars

=============================================================================
